---------------------------- MODULE Spec2Model ----------------------------
(***************************************************************************)
(* FamBud backend: the budget-vs-actual consistency engine.                *)
(*                                                                         *)
(* Persistent state: the Expense, Budget and Category collections.         *)
(* Each HTTP request is a process that runs in a slot, one database call   *)
(* (one await) per step, holding its own in-memory copy of the documents   *)
(* it has loaded.                                                          *)
(*                                                                         *)
(* Amounts are integers; budget amounts are chosen so that                 *)
(* spent / amount * 100 is exact.  Time is counted in ticks of half a      *)
(* second inside a month of MonthTicks ticks.                              *)
(***************************************************************************)
EXTENDS Integers, Sequences, FiniteSets, TLC

(***************************************************************************)
(* Bounds of the model.                                                    *)
(***************************************************************************)
MaxExpenses == 2
MaxBudgets == 4
MaxRequests == 2
MonthTicks == 4
TicksPerSecond == 2
MaxFailures == 2
MaxPercent == 150
MaxIncomes == 1
MaxInvitations == 2
MaxRecurrences == 3

(***************************************************************************)
(* Input domains.                                                          *)
(***************************************************************************)
\* an absent request field (undefined), for a string and for a number
Undef == "undefined"
UndefNum == -1
\* no document: findOne returned null
NoId == 0
Family == "f1"
CategoryIds == {"cA", "cB"}
Periods == {[year |-> 2024, month |-> 12], [year |-> 2025, month |-> 1]}
ExpenseAmounts == {20, 60}
BudgetAmounts == {5, 100}
Thresholds == {0, 80}
\* the largest alertThreshold the schema accepts
MaxThreshold == 100

\* A date is a calendar month and the tick inside it.
Date(y, m, t) == [year |-> y, month |-> m, tick |-> t]
\* the dates requests carry: the first instant of a month, and an instant of
\* the last second of its last day, after 23:59:59.000
Dates == {Date(2024, 12, 0), Date(2025, 1, 0), Date(2025, 1, MonthTicks - 1)}
NoDate == Date(0, 0, 0)

\* Date.prototype.getTime: the position of a date on the time line
getTime(d) == ((d.year * 12 + (d.month - 1)) * MonthTicks) + d.tick
\* Date.prototype.getFullYear and getMonth() + 1
getFullYear(d) == d.year
getMonth1(d) == d.month

(***************************************************************************)
(* Budget model: schema validators, the status virtual, the save hooks.    *)
(***************************************************************************)
\* the status with the warning starting above the threshold, not at it
statusAboveThreshold(percentageUsed, alertThreshold) ==
  IF percentageUsed >= 100 THEN "exceeded"
  ELSE IF percentageUsed > alertThreshold THEN "warning"
  ELSE IF percentageUsed >= 50 THEN "normal"
  ELSE "safe"

\* budgetSchema.virtual('status')
status(percentageUsed, alertThreshold) ==
  IF percentageUsed >= 100 THEN "exceeded"
  ELSE IF percentageUsed >= alertThreshold THEN "warning"
  ELSE IF percentageUsed >= 50 THEN "normal"
  ELSE "safe"

\* the percentage with a budget of 0 counted as used up by any spending
percentageOfZeroUsedUp(spent, amount) ==
  IF amount > 0 THEN (spent * 100) \div amount
  ELSE IF spent > 0 THEN 100 ELSE 0

\* (spent / amount) * 100, guarded against a zero amount
percentageOf(spent, amount) ==
  IF amount > 0 THEN (spent * 100) \div amount ELSE 0

\* the min/max validators of the Budget schema, run by save() before the
\* pre('save') hook on every path of the document
budgetValid(b) ==
  /\ b.amount >= 0
  /\ b.month >= 1 /\ b.month <= 12
  /\ b.year >= 2020 /\ b.year <= 2050
  /\ b.spent >= 0
  /\ b.percentageUsed >= 0 /\ b.percentageUsed <= 1000
  /\ b.alertThreshold >= 0 /\ b.alertThreshold <= 100

\* budgetSchema.pre('save'): remaining and percentageUsed from amount, spent
preSave(b) ==
  [b EXCEPT !.remaining = b.amount - b.spent,
            !.percentageUsed = percentageOf(b.spent, b.amount)]

\* budgetSchema.post('save') asks doc.isModified('amount'); save() has
\* already reset the modified paths when post hooks run, so the answer is
\* FALSE and the hook never reconciles
postSaveReconciles(doc) == FALSE

\* the reconciliation window of updateStats: startDate .. endDate
startDate(year, month) == Date(year, month, 0)
\* new Date(year, month, 0, 23, 59, 59): the last day at 23:59:59.000,
\* one second before the next month starts
endDate(year, month) == Date(year, month, MonthTicks - TicksPerSecond)

RECURSIVE SumAmounts(_, _)
\* $group { $sum: '$amount' } over the expenses whose index is in ids
SumAmounts(exps, ids) ==
  IF ids = {} THEN 0
  ELSE LET i == CHOOSE x \in ids : TRUE
       IN exps[i].amount + SumAmounts(exps, ids \ {i})

\* the $match stage of budgetSchema.methods.updateStats
statsMatch(exps, b) ==
  {i \in DOMAIN exps :
     /\ exps[i].familyId = b.familyId
     /\ exps[i].category = b.categoryId
     /\ getTime(exps[i].date) >= getTime(startDate(b.year, b.month))
     /\ getTime(exps[i].date) <= getTime(endDate(b.year, b.month))
     /\ exps[i].isActive}

\* updateStats as an incremental counter: the aggregate added to the cache
updateStatsAccumulates(exps, b) ==
  LET spent == b.spent + SumAmounts(exps, statsMatch(exps, b))
  IN [b EXCEPT !.spent = spent,
               !.remaining = b.amount - spent,
               !.percentageUsed = percentageOf(spent, b.amount)]

\* the field assignments of budgetSchema.methods.updateStats, before save()
updateStatsFields(exps, b) ==
  LET spent == SumAmounts(exps, statsMatch(exps, b))
  IN [b EXCEPT !.spent = spent,
               !.remaining = b.amount - spent,
               !.percentageUsed = percentageOf(spent, b.amount)]

\* the paths Mongoose marks modified: those whose value differs from the
\* value the document held when it was loaded or last saved
BudgetFields == {"categoryId", "year", "month", "familyId", "amount",
                 "spent", "remaining", "percentageUsed", "alertThreshold",
                 "isActive", "autoRenew", "history"}
isModified(doc, f) == doc.cur[f] # doc.base[f]

\* the $set that save() sends: only the modified paths are written
writeModified(row, doc) ==
  [f \in BudgetFields |-> IF isModified(doc, f) THEN doc.cur[f] ELSE row[f]]

(***************************************************************************)
(* Category model.                                                         *)
(***************************************************************************)
\* the familyId of a category: cA belongs to the family, cB is a default
\* (global) category, whose familyId is null
categoryFamilyId(c) == IF c = "cA" THEN Family ELSE "null"

RECURSIVE MaxDate(_, _)
\* $group { $max: '$date' } over the expenses whose index is in ids
MaxDate(exps, ids) ==
  IF ids = {} THEN NoDate
  ELSE LET i == CHOOSE x \in ids : TRUE
           m == MaxDate(exps, ids \ {i})
       IN IF m = NoDate \/ getTime(exps[i].date) > getTime(m)
          THEN exps[i].date ELSE m

\* the $match stage of categorySchema.methods.updateStats
categoryMatch(exps, c) ==
  {i \in DOMAIN exps :
     exps[i].category = c /\ exps[i].familyId = categoryFamilyId(c)}

\* categorySchema.methods.updateStats: the recomputed cache of category c
categoryStats(exps, c) ==
  LET ids == categoryMatch(exps, c)
  IN IF ids # {}
     THEN [totalExpenses |-> SumAmounts(exps, ids),
           lastUsed |-> MaxDate(exps, ids)]
     ELSE [totalExpenses |-> 0, lastUsed |-> NoDate]

(***************************************************************************)
(* State.                                                                  *)
(***************************************************************************)
VARIABLES
  expenses,    \* the Expense collection, in insertion order
  budgets,     \* the Budget collection, in insertion order
  categories,  \* the cached totalExpenses / lastUsed of each Category
  incomes,     \* the Income collection, in insertion order
  users,       \* the User collection, by _id
  families,    \* the Family collection, by _id
  reqs         \* per slot: the request running there, or its response

vars == <<expenses, budgets, categories, incomes, users, families, reqs>>

Slots == 1..MaxRequests

NoRow ==
  [categoryId |-> Undef, year |-> 0, month |-> 0, familyId |-> Undef,
   amount |-> 0, spent |-> 0, remaining |-> 0, percentageUsed |-> 0,
   alertThreshold |-> 0, isActive |-> FALSE, autoRenew |-> FALSE,
   history |-> <<>>]

\* a Budget document in memory: its _id, its current field values and the
\* values it held when loaded or last saved
Doc(id, row) == [id |-> id, cur |-> row, base |-> row]

\* the users: the one who created the family, and two more registered
\* users; a user's email is modelled by the user's _id
FirstUser == "u1"
UserIds == {"u1", "u2", "u3"}
NoFamily == "null"

\* a request that has not started; req.user is the family's creator unless
\* the request says otherwise
Idle ==
  [op |-> "idle", pc |-> "done", status |-> 0, user |-> FirstUser,
   email |-> Undef, target |-> Undef, role |-> Undef, token |-> 0,
   expId |-> NoId, budgetId |-> NoId,
   amount |-> UndefNum, category |-> Undef, date |-> NoDate,
   threshold |-> UndefNum, period |-> [year |-> 0, month |-> 0],
   startDate |-> NoDate, endDate |-> NoDate, now |-> NoDate,
   todo |-> <<>>, docs |-> <<>>, created |-> 0,
   wrote |-> FALSE, warned |-> FALSE, body |-> "",
   isRecurring |-> FALSE]

\* the database as one value, for the step operators
DB ==
  [expenses |-> expenses, budgets |-> budgets, categories |-> categories,
   incomes |-> incomes, users |-> users, families |-> families]

Out(db, r) == [db |-> db, r |-> r]

\* res.status(code).json(...): the request ends.  What stays of it is the
\* handler, the status, whether its primary write was persisted, whether
\* it logged a reconciliation warning, how many budgets it created, the
\* value it read and the time at which it was served
respond(r, code) ==
  [Idle EXCEPT !.op = r.op, !.status = code, !.created = r.created,
               !.wrote = r.wrote, !.warned = r.warned, !.body = r.body,
               !.now = r.now, !.user = r.user]

bucketKey(category, date) ==
  [categoryId |-> category, year |-> getFullYear(date),
   month |-> getMonth1(date)]

(***************************************************************************)
(* Saving documents.                                                       *)
(***************************************************************************)
\* expenseSchema.post('save'): Category.findById(this.category), then
\* category.updateStats(); both run inside expense.save()
expensePostSave(db, category) ==
  [db EXCEPT !.categories[category] = categoryStats(db.expenses, category)]

\* budget.save() on a loaded document: validation, the pre('save') hook,
\* the write of the modified paths, the post('save') hook.  storeFails is
\* the store rejecting the write.
saveBudget(db, doc, storeFails) ==
  IF ~budgetValid(doc.cur)
  THEN [err |-> "ValidationError", db |-> db, doc |-> doc]
  ELSE IF storeFails
  THEN [err |-> "MongoError", db |-> db, doc |-> doc]
  ELSE LET hooked == [doc EXCEPT !.cur = preSave(doc.cur)]
           row == writeModified(db.budgets[doc.id], hooked)
           saved == Doc(doc.id, hooked.cur)
           kept == IF postSaveReconciles(saved)
                   THEN updateStatsFields(db.expenses, row) ELSE row
       IN [err |-> "none",
           db |-> [db EXCEPT !.budgets[doc.id] = kept],
           doc |-> saved]

\* the index { familyId, categoryId, year, month } without unique: true
duplicateKeyNonUnique(bs, b) == FALSE

\* the unique index { familyId, categoryId, year, month }
duplicateKey(bs, b) ==
  \E i \in DOMAIN bs :
     /\ bs[i].familyId = b.familyId /\ bs[i].categoryId = b.categoryId
     /\ bs[i].year = b.year /\ bs[i].month = b.month

\* save() of a new Budget document: validation, pre('save'), the insert
\* (rejected with E11000 by the unique index), post('save')
insertBudget(db, b, storeFails) ==
  IF ~budgetValid(b)
  THEN [err |-> "ValidationError", db |-> db, doc |-> Doc(NoId, b)]
  ELSE IF storeFails
  THEN [err |-> "MongoError", db |-> db, doc |-> Doc(NoId, b)]
  ELSE IF duplicateKey(db.budgets, b)
  THEN [err |-> "E11000", db |-> db, doc |-> Doc(NoId, b)]
  ELSE LET row == preSave(b)
           bs == Append(db.budgets, row)
           saved == Doc(Len(bs), row)
           kept == IF postSaveReconciles(saved)
                   THEN updateStatsFields(db.expenses, row) ELSE row
       IN [err |-> "none",
           db |-> [db EXCEPT !.budgets = [bs EXCEPT ![Len(bs)] = kept]],
           doc |-> saved]

\* new Budget({...}): the schema defaults of the fields not given
newBudget(categoryId, amount, period, alertThreshold, autoRenew) ==
  [categoryId |-> categoryId, year |-> period.year, month |-> period.month,
   familyId |-> Family, amount |-> amount, spent |-> 0,
   remaining |-> amount - 0, percentageUsed |-> 0,
   alertThreshold |-> alertThreshold, isActive |-> TRUE,
   autoRenew |-> autoRenew, history |-> <<>>]

RECURSIVE LoadDocs(_, _)
\* the documents a find() returns, in _id order
LoadDocs(bs, ids) ==
  IF ids = {} THEN <<>>
  ELSE LET i == CHOOSE x \in ids : \A y \in ids : x <= y
       IN <<Doc(i, bs[i])>> \o LoadDocs(bs, ids \ {i})

\* Budget.find({ familyId, categoryId, month, year, isActive: true })
findBudgets(bs, key) ==
  {i \in DOMAIN bs :
     /\ bs[i].familyId = Family /\ bs[i].categoryId = key.categoryId
     /\ bs[i].month = key.month /\ bs[i].year = key.year
     /\ bs[i].isActive}

(***************************************************************************)
(* Expense requests (expenseController).  Each operator is one step of a   *)
(* handler: it takes the database and the request, and returns both.       *)
(***************************************************************************)
ExpenseOps == {"createExpense", "updateExpense", "deleteExpense"}

\* the success status of each handler
okStatus(op) == IF op \in {"createExpense", "createBudget"} THEN 201 ELSE 200

\* after a bucket's budgets are reconciled: the next bucket, or the response
nextBucket(r) ==
  IF r.todo = <<>> THEN respond(r, okStatus(r.op))
  ELSE [r EXCEPT !.pc = "find"]

\* createExpense up to and including expense.save()
createExpenseSave(db, r, hookFails) ==
  IF r.amount < 1
  THEN Out(db, respond(r, 400))
  ELSE LET exp == [amount |-> r.amount, category |-> r.category,
                   date |-> r.date, familyId |-> Family, isActive |-> TRUE,
                   userId |-> r.user]
           saved == [db EXCEPT !.expenses = Append(db.expenses, exp)]
           r1 == [r EXCEPT !.expId = Len(saved.expenses), !.wrote = TRUE]
       IN IF hookFails
          THEN Out(saved, respond(r1, 500))
          ELSE Out(expensePostSave(saved, exp.category),
                   nextBucket([r1 EXCEPT
                     !.todo = <<bucketKey(exp.category, exp.date)>>]))

\* Expense.findOne({ _id, familyId, isActive: true })
findExpense(exps, id) ==
  IF id \in DOMAIN exps /\ exps[id].familyId = Family /\ exps[id].isActive
  THEN id ELSE NoId

\* the buckets updateExpense reconciles: every original or new category
\* with every original or new period, the original ones first
bucketsToUpdate(old, new, r) ==
  LET cats == IF r.category # Undef /\ r.category # old.category
              THEN <<old.category, r.category>> ELSE <<old.category>>
      p0 == bucketKey(old.category, old.date)
      p1 == bucketKey(old.category, new.date)
      periods == IF r.date # NoDate /\ getTime(new.date) # getTime(old.date)
                    /\ p1 # p0
                 THEN <<p0, p1>> ELSE <<p0>>
  IN [i \in 1..(Len(cats) * Len(periods)) |->
        [periods[((i - 1) % Len(periods)) + 1] EXCEPT
           !.categoryId = cats[((i - 1) \div Len(periods)) + 1]]]

\* updateExpense up to and including expense.save()
updateExpenseSave(db, r, hookFails) ==
  LET id == findExpense(db.expenses, r.expId)
  IN IF id = NoId
     THEN Out(db, respond(r, 404))
     ELSE LET old == db.expenses[id]
              new == [old EXCEPT
                 !.amount = IF r.amount # UndefNum THEN r.amount ELSE @,
                 !.category = IF r.category # Undef THEN r.category ELSE @,
                 !.date = IF r.date # NoDate THEN r.date ELSE @]
              saved == [db EXCEPT !.expenses[id] = new]
              r1 == [r EXCEPT !.wrote = TRUE]
          IN IF new.amount < 1
             THEN Out(db, respond(r, 400))
             ELSE IF hookFails
             THEN Out(saved, respond(r1, 500))
             ELSE Out(expensePostSave(saved, new.category),
                      nextBucket([r1 EXCEPT
                        !.todo = bucketsToUpdate(old, new, r)]))

\* deleteExpense up to and including expense.save()
deleteExpenseSave(db, r, hookFails) ==
  LET id == findExpense(db.expenses, r.expId)
  IN IF id = NoId
     THEN Out(db, respond(r, 404))
     ELSE LET old == db.expenses[id]
              saved == [db EXCEPT !.expenses[id].isActive = FALSE]
              r1 == [r EXCEPT !.wrote = TRUE]
          IN IF hookFails
             THEN Out(saved, respond(r1, 500))
             ELSE Out(expensePostSave(saved, old.category),
                      nextBucket([r1 EXCEPT
                        !.todo = <<bucketKey(old.category, old.date)>>]))

\* Budget.find for the next bucket to reconcile
findStep(db, r) ==
  LET ids == findBudgets(db.budgets, Head(r.todo))
  IN IF ids = {}
     THEN Out(db, nextBucket([r EXCEPT !.todo = Tail(@)]))
     ELSE Out(db, [r EXCEPT !.docs = LoadDocs(db.budgets, ids),
                            !.pc = "agg"])

\* budget.updateStats() up to its save(): the aggregation over Expense
aggregateStep(db, r) ==
  Out(db, [r EXCEPT
             !.docs[1].cur = updateStatsFields(db.expenses, @),
             !.pc = "save"])

\* what a handler does once budget.updateStats() has resolved
afterStats(r) ==
  IF r.op \in ExpenseOps
  THEN IF Len(r.docs) > 1
       THEN [r EXCEPT !.docs = Tail(@), !.pc = "agg"]
       ELSE nextBucket([r EXCEPT !.docs = <<>>, !.todo = Tail(@)])
  ELSE respond(r, okStatus(r.op))

\* what a handler does when budget.updateStats() rejects: the expense
\* handlers log a warning and answer as if nothing happened, the budget
\* handlers answer 400 to a ValidationError and 500 otherwise
statsFailed(r, err) ==
  IF r.op \in ExpenseOps
  THEN respond([r EXCEPT !.warned = TRUE], okStatus(r.op))
  ELSE respond(r, IF err = "ValidationError" /\ r.op # "getBudget"
                  THEN 400 ELSE 500)

\* the save() that ends budget.updateStats()
saveStep(db, r, storeFails) ==
  LET s == saveBudget(db, r.docs[1], storeFails)
  IN IF s.err # "none"
     THEN Out(db, statsFailed(r, s.err))
     ELSE Out(s.db, afterStats(r))

(***************************************************************************)
(* Budget requests (budgetController).                                     *)
(***************************************************************************)
\* Budget.findOne({ _id, familyId, isActive: true })
findBudget(bs, id) ==
  IF id \in DOMAIN bs /\ bs[id].familyId = Family /\ bs[id].isActive
  THEN id ELSE NoId

\* createBudget up to the duplicate check
createBudgetCheck(db, r) ==
  IF r.amount < 1
  THEN Out(db, respond(r, 400))
  ELSE IF findBudgets(db.budgets, [categoryId |-> r.category,
                    year |-> r.period.year, month |-> r.period.month]) # {}
  THEN Out(db, respond(r, 400))
  ELSE Out(db, [r EXCEPT !.pc = "insert"])

\* createBudget: new Budget({...}) and budget.save()
createBudgetInsert(db, r, storeFails) ==
  LET b == newBudget(r.category, r.amount, r.period,
                     IF r.threshold \in {UndefNum, 0} THEN 80
                     ELSE r.threshold,
                     TRUE)
      s == insertBudget(db, b, storeFails)
  IN IF s.err \in {"ValidationError", "E11000"}
     THEN Out(db, respond(r, 400))
     ELSE IF s.err # "none"
     THEN Out(db, respond(r, 500))
     ELSE Out(s.db, [r EXCEPT !.budgetId = s.doc.id, !.docs = <<s.doc>>,
                              !.wrote = TRUE, !.pc = "agg"])

\* updateBudget, getBudget, deleteBudget: the findOne that loads the budget
loadBudget(db, r) ==
  LET id == findBudget(db.budgets, r.budgetId)
  IN IF id = NoId
     THEN Out(db, respond(r, 404))
     ELSE Out(db, [r EXCEPT !.docs = <<Doc(id, db.budgets[id])>>,
                     !.pc = IF r.op = "getBudget" THEN "agg" ELSE "bsave"])

\* the length the history of a budget is cut to
MaxHistory == 10

\* addToHistory keeping every entry
addToHistoryUncut(history, newAmount) ==
  Append(history, [amount |-> newAmount])

\* budgetSchema.methods.addToHistory: history.push({ amount, ... }), then
\* history.slice(-10) when it has grown beyond 10 entries
addToHistory(history, newAmount) ==
  LET pushed == Append(history, [amount |-> newAmount])
  IN IF Len(pushed) > MaxHistory
     THEN SubSeq(pushed, (Len(pushed) - MaxHistory) + 1, Len(pushed))
     ELSE pushed

\* updateBudget: the field assignments and budget.save()
updateBudgetSave(db, r, storeFails) ==
  LET doc == r.docs[1]
      set == [doc EXCEPT
         !.cur.history = IF r.amount # UndefNum /\ r.amount # doc.cur.amount
                         THEN addToHistory(@, r.amount) ELSE @,
         !.cur.amount = IF r.amount # UndefNum /\ r.amount # doc.cur.amount
                        THEN r.amount ELSE @,
         !.cur.alertThreshold = IF r.threshold # UndefNum THEN r.threshold
                                ELSE @]
      s == saveBudget(db, set, storeFails)
  IN IF s.err # "none"
     THEN Out(db, respond(r, IF s.err = "ValidationError" THEN 400 ELSE 500))
     ELSE Out(s.db, [r EXCEPT !.docs = <<s.doc>>, !.wrote = TRUE,
                              !.pc = "agg"])

\* deleteBudget: budget.isActive = false and budget.save()
deleteBudgetSave(db, r, storeFails) ==
  LET s == saveBudget(db, [r.docs[1] EXCEPT !.cur.isActive = FALSE],
                      storeFails)
  IN IF s.err # "none"
     THEN Out(db, respond(r, 500))
     ELSE Out(s.db, respond([r EXCEPT !.wrote = TRUE], 200))

\* budget.status read on the stored document, as getBudgetSummary reads it
\* of every budget it finds
readStatus(db, r) ==
  LET id == findBudget(db.budgets, r.budgetId)
  IN IF id = NoId
     THEN Out(db, respond(r, 404))
     ELSE Out(db, respond([r EXCEPT !.body =
                 status(db.budgets[id].percentageUsed,
                        db.budgets[id].alertThreshold)], 200))

\* the month before (year, month)
previousMonth(period) ==
  IF period.month - 1 = 0
  THEN [year |-> period.year - 1, month |-> 12]
  ELSE [year |-> period.year, month |-> period.month - 1]

\* createFromPreviousMonth: the find of the previous month's budgets
previousBudgets(bs, period) ==
  {i \in DOMAIN bs :
     /\ bs[i].familyId = Family
     /\ bs[i].year = previousMonth(period).year
     /\ bs[i].month = previousMonth(period).month
     /\ bs[i].isActive /\ bs[i].autoRenew}

\* createFromPreviousMonth: after one previous budget, the next or the end
nextPrevious(r) ==
  IF Len(r.docs) > 1
  THEN [r EXCEPT !.docs = Tail(@), !.pc = "exists"]
  ELSE respond(r, 200)

autoCreateFind(db, r) ==
  LET ids == previousBudgets(db.budgets, r.period)
  IN IF ids = {}
     THEN Out(db, respond(r, 200))
     ELSE Out(db, [r EXCEPT !.docs = LoadDocs(db.budgets, ids),
                            !.pc = "exists"])

\* the findOne for the target month looking the category up under a key
\* that no row carries, so that it never finds the existing budget
autoCreateExistsWrongKey(db, r) ==
  LET prev == r.docs[1].cur
      existing == {i \in DOMAIN db.budgets :
                     /\ db.budgets[i].familyId = Family
                     /\ db.budgets[i].categoryId = prev.familyId
                     /\ db.budgets[i].year = r.period.year
                     /\ db.budgets[i].month = r.period.month}
  IN IF existing # {}
     THEN Out(db, nextPrevious(r))
     ELSE Out(db, [r EXCEPT !.pc = "autoInsert"])

\* createFromPreviousMonth: the findOne for the target month, without an
\* isActive condition
autoCreateExists(db, r) ==
  LET prev == r.docs[1].cur
      existing == {i \in DOMAIN db.budgets :
                     /\ db.budgets[i].familyId = Family
                     /\ db.budgets[i].categoryId = prev.categoryId
                     /\ db.budgets[i].year = r.period.year
                     /\ db.budgets[i].month = r.period.month}
  IN IF existing # {}
     THEN Out(db, nextPrevious(r))
     ELSE Out(db, [r EXCEPT !.pc = "autoInsert"])

\* createFromPreviousMonth: new this({...}) and newBudget.save()
autoCreateInsert(db, r, storeFails) ==
  LET prev == r.docs[1].cur
      s == insertBudget(db,
             newBudget(prev.categoryId, prev.amount, r.period,
                       prev.alertThreshold, prev.autoRenew),
             storeFails)
  IN IF s.err # "none"
     THEN Out(db, respond(r, 500))
     ELSE Out(s.db, nextPrevious([r EXCEPT !.created = @ + 1,
                                           !.wrote = TRUE]))

(***************************************************************************)
(* Incomes (incomeController).                                             *)
(***************************************************************************)
\* setMonth(getMonth() + interval) with interval 1: the same instant of the
\* following month
addMonth(d) ==
  IF d.month = 12 THEN Date(d.year + 1, 1, d.tick)
  ELSE Date(d.year, d.month + 1, d.tick)

\* incomeSchema.methods.calculateNextOccurrence, for the pattern
\* { frequency: 'monthly', interval: 1 } without dayOfMonth: null for an
\* income that does not recur, else this.date moved one month on
calculateNextOccurrence(income) ==
  IF ~income.isRecurring THEN NoDate ELSE addMonth(income.date)

\* incomeSchema.pre('save'): a recurring income whose recurringPattern is
\* modified (a new document created with a pattern, or a document whose
\* recurringPattern.nextOccurrence was assigned) has its nextOccurrence
\* computed again from its own date
preSaveIncome(income, patternModified) ==
  IF income.isRecurring /\ patternModified
  THEN [income EXCEPT !.nextOccurrence = calculateNextOccurrence(income)]
  ELSE income

\* createIncome: validation, then new Income({...}).save(); recurringPattern
\* is the one of the body when isRecurring is set
createIncome(db, r, storeFails) ==
  IF r.amount < 1
  THEN Out(db, respond(r, 400))
  ELSE IF storeFails
  THEN Out(db, respond(r, 500))
  ELSE Out([db EXCEPT !.incomes =
              Append(@, preSaveIncome(
                          [amount |-> r.amount, date |-> r.date,
                           familyId |-> Family, isActive |-> TRUE,
                           userId |-> r.user,
                           isRecurring |-> r.isRecurring,
                           nextOccurrence |-> NoDate],
                          r.isRecurring))],
           respond([r EXCEPT !.wrote = TRUE], 201))

\* deleteIncome: Income.findOne({ _id, familyId, isActive: true }), then
\* the soft delete
deleteIncome(db, r, storeFails) ==
  IF ~(/\ r.expId \in DOMAIN db.incomes
       /\ db.incomes[r.expId].familyId = Family
       /\ db.incomes[r.expId].isActive)
  THEN Out(db, respond(r, 404))
  ELSE IF storeFails
  THEN Out(db, respond(r, 500))
  ELSE Out([db EXCEPT !.incomes[r.expId].isActive = FALSE],
           respond([r EXCEPT !.wrote = TRUE], 200))

(***************************************************************************)
(* Read aggregations.  Users and income sources are not modelled, so the   *)
(* per-user filters and the grouping by source are left out; every         *)
(* category an expense references exists, so $lookup / $unwind drop        *)
(* nothing.                                                                *)
(***************************************************************************)
\* the monthly statistics taken over the whole calendar month
monthlyStatsMatchWholeMonth(rows, year, month) ==
  {i \in DOMAIN rows :
     /\ rows[i].familyId = Family
     /\ getFullYear(rows[i].date) = year
     /\ getMonth1(rows[i].date) = month
     /\ rows[i].isActive}

\* the $match of getMonthlyStats (Expense and Income): the family, the
\* window startDate .. endDate of the month, isActive: true
monthlyStatsMatch(rows, year, month) ==
  {i \in DOMAIN rows :
     /\ rows[i].familyId = Family
     /\ getTime(rows[i].date) >= getTime(startDate(year, month))
     /\ getTime(rows[i].date) <= getTime(endDate(year, month))
     /\ rows[i].isActive}

\* Expense.getMonthlyStats: totalAmount and count per category
getMonthlyStats(exps, year, month) ==
  LET ids == monthlyStatsMatch(exps, year, month)
  IN [c \in {exps[i].category : i \in ids} |->
        LET of == {i \in ids : exps[i].category = c}
        IN [totalAmount |-> SumAmounts(exps, of), count |-> Cardinality(of)]]

\* the $match of getYearlyStats: new Date(year, 0, 1) ..
\* new Date(year, 11, 31, 23, 59, 59), isActive: true
yearlyStatsMatch(rows, year) ==
  {i \in DOMAIN rows :
     /\ rows[i].familyId = Family
     /\ getTime(rows[i].date) >= getTime(startDate(year, 1))
     /\ getTime(rows[i].date) <= getTime(endDate(year, 12))
     /\ rows[i].isActive}

\* getYearlyStats: totalAmount per month ($month of the date)
getYearlyStats(rows, year) ==
  LET ids == yearlyStatsMatch(rows, year)
  IN [m \in {getMonth1(rows[i].date) : i \in ids} |->
        SumAmounts(rows, {i \in ids : getMonth1(rows[i].date) = m})]

RECURSIVE SumTotals(_, _)
\* monthlyStats.reduce((sum, stat) => sum + stat.totalAmount, 0)
SumTotals(stats, keys) ==
  IF keys = {} THEN 0
  ELSE LET k == CHOOSE x \in keys : TRUE
       IN stats[k].totalAmount + SumTotals(stats, keys \ {k})

\* getExpenseStats: the monthly and yearly statistics and their totals
getExpenseStats(db, r) ==
  LET monthly == getMonthlyStats(db.expenses, r.period.year, r.period.month)
  IN Out(db, respond([r EXCEPT !.body =
           [totalAmount |-> SumTotals(monthly, DOMAIN monthly),
            monthly |-> monthly,
            yearly |-> getYearlyStats(db.expenses, r.period.year),
            period |-> r.period]], 200))

\* getIncomeStats: the monthly total and the yearly statistics
getIncomeStats(db, r) ==
  LET ids == monthlyStatsMatch(db.incomes, r.period.year, r.period.month)
  IN Out(db, respond([r EXCEPT !.body =
           [totalAmount |-> SumAmounts(db.incomes, ids),
            count |-> Cardinality(ids),
            yearly |-> getYearlyStats(db.incomes, r.period.year),
            period |-> r.period]], 200))

\* Budget.getBudgetsForMonth: the active budgets of the family and month
getBudgetsForMonth(bs, year, month) ==
  {i \in DOMAIN bs :
     /\ bs[i].familyId = Family
     /\ bs[i].year = year /\ bs[i].month = month
     /\ bs[i].isActive}

RECURSIVE SumField(_, _, _)
\* budgets.forEach(budget => { summary.total += budget[f] })
SumField(bs, ids, f) ==
  IF ids = {} THEN 0
  ELSE LET i == CHOOSE x \in ids : TRUE
       IN bs[i][f] + SumField(bs, ids \ {i}, f)

\* Budget.getBudgetSummary: the totals over the budgets of the month
getBudgetSummary(db, r) ==
  LET ids == getBudgetsForMonth(db.budgets, r.period.year, r.period.month)
  IN Out(db, respond([r EXCEPT !.body =
           [totalBudget |-> SumField(db.budgets, ids, "amount"),
            totalSpent |-> SumField(db.budgets, ids, "spent"),
            totalRemaining |-> SumField(db.budgets, ids, "remaining"),
            categories |-> Cardinality(ids),
            period |-> r.period]], 200))

\* the $match of the aggregations of Family.getStats: the family and the
\* $month / $year of the current date, with no isActive condition
familyStatsMatch(rows, now) ==
  {i \in DOMAIN rows :
     /\ rows[i].familyId = Family
     /\ getMonth1(rows[i].date) = getMonth1(now)
     /\ getFullYear(rows[i].date) = getFullYear(now)}

\* familySchema.methods.getStats: the currentMonth part of the result
getStats(db, now) ==
  LET exps == familyStatsMatch(db.expenses, now)
      incs == familyStatsMatch(db.incomes, now)
  IN [expenses |-> SumAmounts(db.expenses, exps),
      incomes |-> SumAmounts(db.incomes, incs),
      balance |-> SumAmounts(db.incomes, incs)
                    - SumAmounts(db.expenses, exps),
      expenseCount |-> Cardinality(exps),
      incomeCount |-> Cardinality(incs)]

\* getFamily: the statistics it answers with
getFamily(db, r) ==
  Out(db, respond([r EXCEPT !.body = getStats(db, r.now)], 200))

(***************************************************************************)
(* The dashboard (GET /api/dashboard).  Dates are taken in the server's    *)
(* time zone.  An absent startDate or endDate is NoDate.                   *)
(***************************************************************************)
\* the default trend covers the last 6 months
TrendMonths == 6
\* new Date('2020-01-01'): where the filtered trend starts without startDate
TrendEpoch == Date(2020, 1, 0)

\* endDateTime.setHours(23, 59, 59, 999): the last instant of the day of d
endOfDay(d) ==
  IF d.tick >= MonthTicks - TicksPerSecond
  THEN Date(d.year, d.month, MonthTicks - 1)
  ELSE d

\* the base match defaulting to the current calendar month when neither
\* startDate nor endDate is given
baseMatchCurrentMonth(rows, r) ==
  {i \in DOMAIN rows :
     /\ rows[i].familyId = Family
     /\ rows[i].isActive
     /\ r.startDate # NoDate =>
          getTime(rows[i].date) >= getTime(r.startDate)
     /\ r.endDate # NoDate =>
          getTime(rows[i].date) <= getTime(endOfDay(r.endDate))
     /\ (r.startDate = NoDate /\ r.endDate = NoDate) =>
          /\ getMonth1(rows[i].date) = getMonth1(r.now)
          /\ getFullYear(rows[i].date) = getFullYear(r.now)}

\* baseExpenseMatch / baseIncomeMatch: the family, isActive: true, and the
\* date filter when startDate or endDate is given
baseMatch(rows, r) ==
  {i \in DOMAIN rows :
     /\ rows[i].familyId = Family
     /\ rows[i].isActive
     /\ r.startDate # NoDate =>
          getTime(rows[i].date) >= getTime(r.startDate)
     /\ r.endDate # NoDate =>
          getTime(rows[i].date) <= getTime(endOfDay(r.endDate))}

\* the month's match taken over the whole calendar month, whatever the
\* date filter
monthMatchWholeMonth(rows, r, year, month) ==
  {i \in DOMAIN rows :
     /\ rows[i].familyId = Family
     /\ rows[i].isActive
     /\ getMonth1(rows[i].date) = month /\ getFullYear(rows[i].date) = year}

\* monthExpenseMatch / monthIncomeMatch: the base match, date filter
\* included, and the $month / $year of the bucket
monthMatch(rows, r, year, month) ==
  {i \in baseMatch(rows, r) :
     getMonth1(rows[i].date) = month /\ getFullYear(rows[i].date) = year}

\* one bucket of monthlyTrend: the month and its two totals
trendBucket(db, r, year, month) ==
  [year |-> year, month |-> month,
   expenses |-> SumAmounts(db.expenses,
                           monthMatch(db.expenses, r, year, month)),
   incomes |-> SumAmounts(db.incomes,
                          monthMatch(db.incomes, r, year, month))]

\* new Date(year, monthIndex, 1) for any integer monthIndex (0 = January):
\* the constructor carries the months over into the year
firstOfMonth(year, monthIndex) ==
  LET n == year * 12 + monthIndex
  IN Date(n \div 12, (n % 12) + 1, 0)

RECURSIVE defaultTrend(_, _, _)
\* for (let i = 5; i >= 0; i--): the buckets of the months i, i - 1, .. 0
\* months before the current one
defaultTrend(db, r, i) ==
  IF i < 0 THEN <<>>
  ELSE LET date == firstOfMonth(getFullYear(r.now), getMonth1(r.now) - 1 - i)
       IN <<trendBucket(db, r, getFullYear(date), getMonth1(date))>>
            \o defaultTrend(db, r, i - 1)

\* current.setMonth(current.getMonth() + 1) on the first day of a month
setNextMonth(current) == firstOfMonth(current.year, (current.month - 1) + 1)

RECURSIVE rangeTrendExclusive(_, _, _, _)
\* the loop of the filtered trend stopping before the month of the end
rangeTrendExclusive(db, r, current, endMonth) ==
  IF ~(getTime(current) < getTime(endMonth)) THEN <<>>
  ELSE <<trendBucket(db, r, getFullYear(current), getMonth1(current))>>
         \o rangeTrendExclusive(db, r, setNextMonth(current), endMonth)

RECURSIVE rangeTrend(_, _, _, _)
\* while (current <= endMonth) { ...; current.setMonth(...) }
rangeTrend(db, r, current, endMonth) ==
  IF ~(getTime(current) <= getTime(endMonth)) THEN <<>>
  ELSE <<trendBucket(db, r, getFullYear(current), getMonth1(current))>>
         \o rangeTrend(db, r, setNextMonth(current), endMonth)

\* monthlyTrendData: the last 6 months without a date filter, else the
\* months from that of start to that of end
monthlyTrend(db, r) ==
  IF r.startDate = NoDate /\ r.endDate = NoDate
  THEN defaultTrend(db, r, TrendMonths - 1)
  ELSE LET start == IF r.startDate # NoDate THEN r.startDate ELSE TrendEpoch
           end == IF r.endDate # NoDate THEN r.endDate ELSE r.now
       IN rangeTrend(db, r,
                     firstOfMonth(getFullYear(start), getMonth1(start) - 1),
                     firstOfMonth(getFullYear(end), getMonth1(end) - 1))

\* the expensesByCategory aggregation: totalAmount per category
expensesByCategory(db, r) ==
  LET ids == baseMatch(db.expenses, r)
  IN [c \in {db.expenses[i].category : i \in ids} |->
        SumAmounts(db.expenses, {i \in ids : db.expenses[i].category = c})]

\* Math.round((spent / amount) * 100) of the budget alerts
roundedPercentage(spent, amount) ==
  IF amount > 0 THEN ((spent * 200) + amount) \div (2 * amount) ELSE 0

\* the status of a budget alert: exceeded from 100 percent, warning from
\* alertThreshold || 80, else safe
alertStatus(spent, amount, alertThreshold) ==
  LET threshold == IF alertThreshold = 0 THEN 80 ELSE alertThreshold
  IN IF amount > 0 /\ spent * 100 >= 100 * amount THEN "exceeded"
     ELSE IF amount > 0 /\ spent * 100 >= threshold * amount THEN "warning"
     ELSE IF amount <= 0 /\ 0 >= threshold THEN "warning"
     ELSE "safe"

\* budgetAlerts: every active budget of the family, of whatever month,
\* with the spending of its category in the filtered period laid over it
budgetAlerts(db, r) ==
  LET byCategory == expensesByCategory(db, r)
      all == {i \in DOMAIN db.budgets :
                db.budgets[i].familyId = Family /\ db.budgets[i].isActive}
  IN [i \in all |->
        LET b == db.budgets[i]
            spent == IF b.categoryId \in DOMAIN byCategory
                     THEN byCategory[b.categoryId] ELSE 0
        IN [budget |-> b, spent |-> spent,
            percentageUsed |-> roundedPercentage(spent, b.amount),
            status |-> alertStatus(spent, b.amount, b.alertThreshold)]]

\* dashboardData
dashboardData(db, r) ==
  LET totalExpenseAmount == SumAmounts(db.expenses, baseMatch(db.expenses, r))
      totalIncomeAmount == SumAmounts(db.incomes, baseMatch(db.incomes, r))
      balance == totalIncomeAmount - totalExpenseAmount
  IN [stats |-> [monthlyExpenses |-> totalExpenseAmount,
                 monthlyIncome |-> totalIncomeAmount,
                 balance |-> balance,
                 savings |-> IF balance > 0 THEN balance ELSE 0],
      expensesByCategory |-> expensesByCategory(db, r),
      monthlyTrend |-> monthlyTrend(db, r),
      recentTransactions |->
        [expenses |-> baseMatch(db.expenses, r),
         incomes |-> baseMatch(db.incomes, r)],
      budgetAlerts |-> budgetAlerts(db, r),
      appliedFilters |-> [startDate |-> r.startDate, endDate |-> r.endDate]]

\* the dashboard writing the overlay of each alert back to its budget
dashboardWritingBack(db, r) ==
  LET alerts == budgetAlerts(db, r)
  IN Out([db EXCEPT !.budgets =
            [i \in DOMAIN db.budgets |->
               IF i \in DOMAIN alerts
               THEN [db.budgets[i] EXCEPT
                       !.spent = alerts[i].spent,
                       !.percentageUsed = alerts[i].percentageUsed]
               ELSE db.budgets[i]]],
         respond([r EXCEPT !.body = dashboardData(db, r)], 200))

\* GET /api/dashboard: the response; nothing is written
dashboard(db, r) ==
  Out(db, respond([r EXCEPT !.body = dashboardData(db, r)], 200))

(***************************************************************************)
(* refreshBudgetStats (budgetController).                                  *)
(***************************************************************************)
\* refreshBudgetStats: Budget.getBudgetsForMonth
refreshFind(db, r) ==
  LET ids == getBudgetsForMonth(db.budgets, r.period.year, r.period.month)
      r1 == [r EXCEPT !.body = [updatedCount |-> Cardinality(ids),
                                period |-> r.period]]
  IN IF ids = {}
     THEN Out(db, respond(r1, 200))
     ELSE Out(db, [r1 EXCEPT !.docs = LoadDocs(db.budgets, ids),
                             !.pc = "refreshAgg"])

\* budgets.map(budget => budget.updateStats()): every updateStats is
\* started, and their aggregations resolve
refreshAggregate(db, r) ==
  Out(db, [r EXCEPT
             !.docs = [i \in DOMAIN r.docs |->
                         [r.docs[i] EXCEPT
                            !.cur = updateStatsFields(db.expenses, @)]],
             !.pc = "refreshSave"])

\* the save() of one updateStats resolves or rejects.  A rejection makes
\* Promise.all reject: the handler logs it and answers 500, while the
\* updateStats of the other budgets run on
refreshSave(db, r, storeFails) ==
  LET s == saveBudget(db, r.docs[1], storeFails)
      r1 == IF s.err # "none"
            THEN [r EXCEPT !.status = 500, !.warned = TRUE] ELSE r
      db1 == IF s.err # "none" THEN db ELSE s.db
  IN IF Len(r.docs) > 1
     THEN Out(db1, [r1 EXCEPT !.docs = Tail(@)])
     ELSE Out(db1, respond(r1, IF r1.status = 500 THEN 500 ELSE 200))

RECURSIVE refreshSaves(_, _, _)
\* the saves of the refresh one after the other, the store rejecting the
\* n-th of them (none when n = 0)
refreshSaves(db, r, n) ==
  IF r.pc = "done" THEN Out(db, r)
  ELSE LET o == refreshSave(db, r, n = 1)
       IN refreshSaves(o.db, o.r, n - 1)

\* refreshBudgetStats served alone, from the request to the response
refreshBudgetStats(db, r, n) ==
  LET found == refreshFind(db, r)
  IN IF found.r.pc = "done" THEN found
     ELSE LET o == refreshAggregate(found.db, found.r)
          IN refreshSaves(o.db, o.r, n)

(***************************************************************************)
(* One step of a request, and a request run to its response.               *)
(***************************************************************************)
\* the steps at which the store may reject a write
writes(r) ==
  \/ r.pc \in {"save", "insert", "bsave", "autoInsert"}
  \/ r.pc = "start" /\ r.op \in ExpenseOps

step(db, r, fails) ==
  CASE r.pc = "start" /\ r.op = "createExpense" ->
         createExpenseSave(db, r, fails)
    [] r.pc = "start" /\ r.op = "updateExpense" ->
         updateExpenseSave(db, r, fails)
    [] r.pc = "start" /\ r.op = "deleteExpense" ->
         deleteExpenseSave(db, r, fails)
    [] r.pc = "start" /\ r.op = "createBudget" -> createBudgetCheck(db, r)
    [] r.pc = "start" /\ r.op = "autoCreateBudgets" -> autoCreateFind(db, r)
    [] r.pc = "start" /\ r.op \in {"updateBudget", "deleteBudget",
                                   "getBudget"} -> loadBudget(db, r)
    [] r.pc = "start" /\ r.op = "readStatus" -> readStatus(db, r)
    [] r.pc = "find" -> findStep(db, r)
    [] r.pc = "agg" -> aggregateStep(db, r)
    [] r.pc = "save" -> saveStep(db, r, fails)
    [] r.pc = "insert" -> createBudgetInsert(db, r, fails)
    [] r.pc = "bsave" /\ r.op = "updateBudget" ->
         updateBudgetSave(db, r, fails)
    [] r.pc = "bsave" /\ r.op = "deleteBudget" ->
         deleteBudgetSave(db, r, fails)
    [] r.pc = "exists" -> autoCreateExists(db, r)
    [] r.pc = "autoInsert" -> autoCreateInsert(db, r, fails)

RECURSIVE run(_, _, _)
\* a request run alone from its current step to its response; the store
\* rejects its n-th write (none when n = 0)
run(db, r, n) ==
  IF r.pc = "done" THEN Out(db, r)
  ELSE LET o == step(db, r, writes(r) /\ n = 1)
       IN run(o.db, o.r, IF writes(r) THEN n - 1 ELSE n)

\* the requests
Request(op) == [Idle EXCEPT !.op = op, !.pc = "start"]
createExpenseReq(amount, category, date) ==
  [Request("createExpense") EXCEPT
     !.amount = amount, !.category = category, !.date = date]
updateExpenseReq(id, amount, category, date) ==
  [Request("updateExpense") EXCEPT
     !.expId = id, !.amount = amount, !.category = category, !.date = date]
deleteExpenseReq(id) == [Request("deleteExpense") EXCEPT !.expId = id]
createBudgetReq(category, amount, period, threshold) ==
  [Request("createBudget") EXCEPT
     !.category = category, !.amount = amount, !.period = period,
     !.threshold = threshold]
updateBudgetReq(id, amount, threshold) ==
  [Request("updateBudget") EXCEPT
     !.budgetId = id, !.amount = amount, !.threshold = threshold]
deleteBudgetReq(id) == [Request("deleteBudget") EXCEPT !.budgetId = id]
getBudgetReq(id) == [Request("getBudget") EXCEPT !.budgetId = id]
readStatusReq(id) == [Request("readStatus") EXCEPT !.budgetId = id]
autoCreateBudgetsReq(period) ==
  [Request("autoCreateBudgets") EXCEPT !.period = period]
createIncomeReq(amount, date) ==
  [Request("createIncome") EXCEPT !.amount = amount, !.date = date]
deleteIncomeReq(id) == [Request("deleteIncome") EXCEPT !.expId = id]
getExpenseStatsReq(period) ==
  [Request("getExpenseStats") EXCEPT !.period = period]
getIncomeStatsReq(period) ==
  [Request("getIncomeStats") EXCEPT !.period = period]
getBudgetSummaryReq(period) ==
  [Request("getBudgetSummary") EXCEPT !.period = period]
getFamilyReq(now) == [Request("getFamily") EXCEPT !.now = now]
refreshBudgetStatsReq(period) ==
  [Request("refreshBudgetStats") EXCEPT !.period = period]
dashboardReq(startDate_, endDate_, now) ==
  [Request("dashboard") EXCEPT
     !.startDate = startDate_, !.endDate = endDate_, !.now = now]

(***************************************************************************)
(* Requests served one at a time: each action is a whole handler.          *)
(* The actions take the sets their inputs are drawn from; fails is the     *)
(* set of writes of the request that the store may reject (0: none).       *)
(***************************************************************************)
\* createFamily has run: the first user is the admin and only member of
\* the family; the other users are registered and belong to no family
InitUsers ==
  [u \in UserIds |->
     IF u = FirstUser
     THEN [exists |-> TRUE, familyId |-> Family, role |-> "admin"]
     ELSE [exists |-> TRUE, familyId |-> NoFamily, role |-> "member"]]
InitFamilies ==
  [f \in {Family} |->
     [exists |-> TRUE,
      members |-> <<[user |-> FirstUser, role |-> "admin",
                     isActive |-> TRUE]>>,
      invitations |-> <<>>]]

Init ==
  /\ expenses = <<>>
  /\ budgets = <<>>
  /\ categories = [c \in CategoryIds |->
                     [totalExpenses |-> 0, lastUsed |-> NoDate]]
  /\ incomes = <<>>
  /\ users = InitUsers
  /\ families = InitFamilies
  /\ reqs = [s \in Slots |-> Idle]

\* the request r0 is served from start to response in slot 1
Handle(r0, fails) ==
  \E n \in fails :
     \E o \in {run(DB, r0, n)} :
        /\ expenses' = o.db.expenses
        /\ budgets' = o.db.budgets
        /\ categories' = o.db.categories
        /\ incomes' = o.db.incomes
        /\ users' = o.db.users
        /\ families' = o.db.families
        /\ reqs' = [reqs EXCEPT ![1] = o.r]

CreateExpense(amounts, cats, dates, fails) ==
  \E a \in amounts, c \in cats, d \in dates :
     /\ Len(expenses) < MaxExpenses
     /\ Handle(createExpenseReq(a, c, d), fails)

UpdateExpense(amounts, cats, dates, fails) ==
  \E id \in DOMAIN expenses, a \in amounts \cup {UndefNum},
     c \in cats \cup {Undef}, d \in dates \cup {NoDate} :
     Handle(updateExpenseReq(id, a, c, d), fails)

DeleteExpense(fails) ==
  \E id \in 1..(Len(expenses) + 1) : Handle(deleteExpenseReq(id), fails)

CreateBudget(cats, amounts, periods, thresholds, fails) ==
  \E c \in cats, a \in amounts, p \in periods, t \in thresholds :
     /\ Len(budgets) < MaxBudgets
     /\ Handle(createBudgetReq(c, a, p, t), fails)

UpdateBudget(amounts, thresholds, fails) ==
  \E id \in DOMAIN budgets, a \in amounts \cup {UndefNum},
     t \in thresholds \cup {UndefNum} :
     Handle(updateBudgetReq(id, a, t), fails)

DeleteBudget(fails) ==
  \E id \in DOMAIN budgets : Handle(deleteBudgetReq(id), fails)

GetBudget(fails) ==
  \E id \in DOMAIN budgets : Handle(getBudgetReq(id), fails)

ReadStatus ==
  \E id \in DOMAIN budgets : Handle(readStatusReq(id), {0})

AutoCreateBudgets(periods, fails) ==
  \E p \in periods :
     /\ run(DB, autoCreateBudgetsReq(p), 0).r.created
          <= MaxBudgets - Len(budgets)
     /\ Handle(autoCreateBudgetsReq(p), fails)

NoFailure == {0}
JustCategoryA == {"cA"}
December == Date(2024, 12, 0)
January == Date(2025, 1, 0)
\* an instant of 31 January after 23:59:59.000
JanuaryEnd == Date(2025, 1, MonthTicks - 1)
\* a day inside December and a day inside January
DecemberMid == Date(2024, 12, 1)
JanuaryMid == Date(2025, 1, 1)

\* expense and budget requests with dates at the start of a month, and
\* every write persisted by the store
Next ==
  \/ CreateExpense({60}, JustCategoryA, {December, January}, NoFailure)
  \/ UpdateExpense({20}, {}, {December, January}, NoFailure)
  \/ DeleteExpense(NoFailure)
  \/ CreateBudget(JustCategoryA, BudgetAmounts,
                  {[year |-> 2025, month |-> 1]}, {UndefNum}, NoFailure)
  \/ GetBudget(NoFailure)

Spec == Init /\ [][Next]_vars

\* the same requests, with dates that reach the last second of a month and
\* budgets large enough for percentageUsed to stay under its validator
NextMonthEnd ==
  \/ CreateExpense({60}, JustCategoryA, Dates, NoFailure)
  \/ UpdateExpense({}, {}, Dates, NoFailure)
  \/ DeleteExpense(NoFailure)
  \/ CreateBudget(JustCategoryA, {100}, Periods, {UndefNum}, NoFailure)
  \/ UpdateBudget({50}, {}, NoFailure)
  \/ GetBudget(NoFailure)

SpecMonthEnd == Init /\ [][NextMonthEnd]_vars

\* the store may reject one write of a request: its first, its second, ...
Failures == 0..MaxFailures

\* the requests served one at a time by a store that may reject a write
NextFail ==
  \/ CreateExpense({0, 60}, JustCategoryA, {January}, Failures)
  \/ UpdateExpense({20}, {}, {}, Failures)
  \/ DeleteExpense(Failures)
  \/ CreateBudget(JustCategoryA, {100}, {[year |-> 2025, month |-> 1]},
                  {UndefNum}, Failures)
  \/ GetBudget(Failures)

SpecFail == Init /\ [][NextFail]_vars

\* budgets of December 2024 created, deleted and renewed into January 2025
NextAuto ==
  \/ CreateBudget(CategoryIds, {100}, {[year |-> 2024, month |-> 12]},
                  {UndefNum}, NoFailure)
  \/ UpdateBudget({50}, {}, NoFailure)
  \/ DeleteBudget(NoFailure)
  \/ AutoCreateBudgets(Periods, NoFailure)

SpecAuto == Init /\ [][NextAuto]_vars

(***************************************************************************)
(* Concurrent requests: each action is one await of one handler, so the    *)
(* steps of the requests in the slots interleave.  A budget is created     *)
(* while no other request is in flight.                                    *)
(***************************************************************************)
\* the request r0 arrives in the free slot s and runs up to its first await
Begin(s, r0) ==
  /\ reqs[s].pc = "done"
  /\ \E o \in {step(DB, r0, FALSE)} :
        /\ expenses' = o.db.expenses
        /\ budgets' = o.db.budgets
        /\ categories' = o.db.categories
        /\ incomes' = o.db.incomes
        /\ users' = o.db.users
        /\ families' = o.db.families
        /\ reqs' = [reqs EXCEPT ![s] = o.r]

\* the request in slot s runs from the await it is at to its next await
Resume(s) ==
  \E o \in {step(DB, reqs[s], FALSE)} :
     /\ expenses' = o.db.expenses
     /\ budgets' = o.db.budgets
     /\ categories' = o.db.categories
     /\ incomes' = o.db.incomes
     /\ users' = o.db.users
     /\ families' = o.db.families
     /\ reqs' = [reqs EXCEPT ![s] = o.r]

StartCreateExpense(amounts, cats, dates) ==
  \E s \in Slots, a \in amounts, c \in cats, d \in dates :
     /\ Len(expenses) < MaxExpenses
     /\ Begin(s, createExpenseReq(a, c, d))

StartUpdateExpense(amounts, cats, dates) ==
  \E s \in Slots, id \in DOMAIN expenses, a \in amounts \cup {UndefNum},
     c \in cats \cup {Undef}, d \in dates \cup {NoDate} :
     Begin(s, updateExpenseReq(id, a, c, d))

StartDeleteExpense ==
  \E s \in Slots, id \in DOMAIN expenses : Begin(s, deleteExpenseReq(id))

StartGetBudget ==
  \E s \in Slots, id \in DOMAIN budgets : Begin(s, getBudgetReq(id))

\* Budget.find of the bucket resolves
FindBudgets == \E s \in Slots : reqs[s].pc = "find" /\ Resume(s)

\* the aggregation of updateStats resolves
Aggregate == \E s \in Slots : reqs[s].pc = "agg" /\ Resume(s)

\* the save() of updateStats resolves
SaveStats == \E s \in Slots : reqs[s].pc = "save" /\ Resume(s)

quiescent == \A s \in Slots : reqs[s].pc = "done"

\* concurrent expense mutations dated at the start of the month
NextRace ==
  \/ StartCreateExpense({60}, JustCategoryA, {January})
  \/ StartUpdateExpense({20}, {}, {})
  \/ StartDeleteExpense
  \/ FindBudgets
  \/ Aggregate
  \/ SaveStats
  \/ /\ quiescent
     /\ CreateBudget(JustCategoryA, {100}, {[year |-> 2025, month |-> 1]},
                     {UndefNum}, NoFailure)

SpecRace == Init /\ [][NextRace]_vars

\* concurrent expense mutations and reconciliations, with dates that reach
\* the last second of the month
NextConc ==
  \/ StartCreateExpense({60}, JustCategoryA, {January, JanuaryEnd})
  \/ StartDeleteExpense
  \/ StartGetBudget
  \/ FindBudgets
  \/ Aggregate
  \/ SaveStats
  \/ /\ quiescent
     /\ CreateBudget(JustCategoryA, {100}, {[year |-> 2025, month |-> 1]},
                     {UndefNum}, NoFailure)

SpecConc == Init /\ [][NextConc]_vars

(***************************************************************************)
(* The status of a budget.  The store holds one budget of amount 100 or 0  *)
(* with any alertThreshold the schema accepts, reconciled with the one     *)
(* expense of its bucket; the requests reconcile it and read its status.   *)
(***************************************************************************)
InitStatus ==
  \E a \in {0, 100}, spent \in 0..MaxPercent, t \in 0..MaxThreshold :
     LET exps == IF spent = 0 THEN <<>>
                 ELSE <<[amount |-> spent, category |-> "cA",
                         date |-> January, familyId |-> Family,
                         isActive |-> TRUE, userId |-> FirstUser,
                         isRecurring |-> FALSE, nextOccurrence |-> NoDate]>>
         b == newBudget("cA", a, [year |-> 2025, month |-> 1], t, TRUE)
     IN /\ expenses = exps
        /\ budgets = <<updateStatsFields(exps, b)>>
        /\ categories = [c \in CategoryIds |-> categoryStats(exps, c)]
        /\ incomes = <<>>
        /\ users = InitUsers
        /\ families = InitFamilies
        /\ reqs = [s \in Slots |-> Idle]

NextStatus ==
  \/ GetBudget(NoFailure)
  \/ ReadStatus

SpecStatus == InitStatus /\ [][NextStatus]_vars

(***************************************************************************)
(* The bucket of a budget as the specification defines it: the active      *)
(* expenses of the family and category dated in the budget's calendar      *)
(* month.                                                                  *)
(***************************************************************************)
bucketOf(exps, b) ==
  {i \in DOMAIN exps :
     /\ exps[i].isActive
     /\ exps[i].familyId = b.familyId
     /\ exps[i].category = b.categoryId
     /\ getFullYear(exps[i].date) = b.year
     /\ getMonth1(exps[i].date) = b.month}

bucketSum(exps, b) == SumAmounts(exps, bucketOf(exps, b))

\* a request whose reconciliation did not persist: an expense handler that
\* logged the warning, a budget handler that failed after its write
reconciliationFailed(r) ==
  \/ r.warned
  \/ r.op \in {"createBudget", "updateBudget"} /\ r.wrote /\ r.status >= 400
  \/ r.op = "getBudget" /\ r.status = 500

(***************************************************************************)
(* Properties of the serial specifications.                                *)
(***************************************************************************)
\* every active budget's cached spent is the sum of its bucket
reconciled(exps, bs) ==
  \A i \in DOMAIN bs : bs[i].isActive => bs[i].spent = bucketSum(exps, bs[i])

\* C1: with requests served one at a time and every reconciliation write
\* persisted, after every completed request each active Budget's spent
\* equals the sum of the active expenses of its family and category dated
\* in its (year, month)
C1_SpentEqualsBucketSum ==
  (\A s \in Slots : ~reconciliationFailed(reqs[s]))
     => reconciled(expenses, budgets)

\* an expense that updateExpense moved to another bucket, its amount kept
moved(old, new) ==
  /\ old.isActive /\ new.isActive
  /\ old.amount = new.amount
  /\ bucketKey(old.category, old.date) # bucketKey(new.category, new.date)

keyOf(b) == [categoryId |-> b.categoryId, year |-> b.year, month |-> b.month]

\* C2: an updateExpense that moves an expense of amount a to another bucket
\* decreases the old bucket's Budget.spent by a, increases the new bucket's
\* by a, and leaves the Budget rows of every other bucket unchanged
C2_MoveShiftsSpent ==
  [][\A id \in DOMAIN expenses :
        (id \in DOMAIN expenses' /\ moved(expenses[id], expenses'[id])) =>
          \A i \in DOMAIN budgets :
             budgets[i].isActive =>
               LET old == expenses[id]
                   new == expenses'[id]
               IN IF keyOf(budgets[i]) = bucketKey(old.category, old.date)
                  THEN budgets'[i].spent = budgets[i].spent - old.amount
                  ELSE IF keyOf(budgets[i])
                            = bucketKey(new.category, new.date)
                  THEN budgets'[i].spent = budgets[i].spent + old.amount
                  ELSE budgets'[i] = budgets[i]]_vars

\* C3: for every Budget with amount >= 0 and every set of active expenses
\* in its bucket, reconciliation succeeds and persists spent = the sum of
\* the bucket, remaining = amount - spent and percentageUsed =
\* spent / amount * 100, however far spent exceeds amount
C3_ReconcileSucceeds ==
  \A id \in DOMAIN budgets :
     budgets[id].isActive =>
       LET o == run(DB, getBudgetReq(id), 0)
           b == o.db.budgets[id]
       IN /\ o.r.status = 200
          /\ b.spent = bucketSum(expenses, b)
          /\ b.remaining = b.amount - b.spent
          /\ b.percentageUsed = percentageOf(b.spent, b.amount)

\* C4: reconciling the same Budget twice with no change in between leaves
\* the Budget rows, and the rest of the database, after the second call
\* identical to what they were after the first
C4_ReconcileIdempotent ==
  \A id \in DOMAIN budgets :
     LET first == run(DB, getBudgetReq(id), 0)
         second == run(first.db, getBudgetReq(id), 0)
     IN /\ second.db = first.db
        /\ second.r = first.r

\* a reconciliation has just rewritten an overspent budget: 120 spent of 100
C4_Witness ==
  /\ reqs[1].op = "getBudget" /\ reqs[1].status = 200
  /\ \E id \in DOMAIN budgets :
        /\ budgets[id].isActive /\ budgets[id].amount = 100
        /\ budgets[id].spent = 120 /\ budgets[id].remaining = -20
        /\ budgets[id].percentageUsed = 120

(***************************************************************************)
(* Properties of the status of a budget.                                   *)
(***************************************************************************)
\* the order safe < normal < warning < exceeded
rank(st) ==
  CASE st = "safe" -> 0
    [] st = "normal" -> 1
    [] st = "warning" -> 2
    [] st = "exceeded" -> 3

\* the answers of the requests that read the status of the budget
statusRead == {reqs[s].body : s \in {x \in Slots : reqs[x].op = "readStatus"
                                                 /\ reqs[x].status = 200}}

\* C5: the status read is exceeded if percentageUsed >= 100, else warning
\* if percentageUsed >= alertThreshold, else normal if percentageUsed >= 50,
\* else safe; with alertThreshold 80 the inputs 0, 49, 50, 79, 80, 99, 100,
\* 150 read safe, safe, normal, normal, warning, warning, exceeded,
\* exceeded; and for every alertThreshold the status of a smaller
\* percentageUsed is never higher in the order safe < normal < warning <
\* exceeded
C5_StatusLadder ==
  \A st \in statusRead :
     LET p == budgets[1].percentageUsed
         t == budgets[1].alertThreshold
     IN /\ st = IF p >= 100 THEN "exceeded"
                ELSE IF p >= t THEN "warning"
                ELSE IF p >= 50 THEN "normal"
                ELSE "safe"
        /\ t = 80 =>
             /\ p \in {0, 49} => st = "safe"
             /\ p \in {50, 79} => st = "normal"
             /\ p \in {80, 99} => st = "warning"
             /\ p \in {100, 150} => st = "exceeded"
        /\ \A q \in 0..p :
             rank(status(q, t)) <= rank(st)

\* the status of a budget at exactly its threshold of 80 percent was read
C5_Witness ==
  /\ budgets[1].percentageUsed = 80 /\ budgets[1].alertThreshold = 80
  /\ budgets[1].amount = 100
  /\ statusRead = {"warning"}

\* the requests that reconciled the budget all succeeded
reconcileAnswers == {reqs[s].status : s \in {x \in Slots :
                                               reqs[x].op = "getBudget"}}

\* C6 as stated: a Budget with amount = 0 reports percentageUsed = 0 and
\* status safe for every spent and every alertThreshold in 0..100, and
\* reconciling it raises no error
C6_ZeroAmountIsSafe ==
  budgets[1].amount = 0 =>
     /\ budgets[1].percentageUsed = 0
     /\ statusRead \subseteq {"safe"}
     /\ reconcileAnswers \subseteq {200}

\* C6 amended: reconciling a Budget with amount = 0 raises no error and
\* leaves percentageUsed = 0 for every spent and every alertThreshold in
\* 0..100; its status then reads safe for every alertThreshold in 1..100
\* and warning when alertThreshold = 0
C6_ZeroAmountIsSafeAboveZeroThreshold ==
  budgets[1].amount = 0 =>
     /\ budgets[1].percentageUsed = 0
     /\ statusRead \subseteq
          {IF budgets[1].alertThreshold = 0 THEN "warning" ELSE "safe"}
     /\ reconcileAnswers \subseteq {200}

\* the status of a budget of amount 0 with 60 spent and the smallest
\* positive threshold was read
C6_Witness ==
  /\ budgets[1].amount = 0 /\ budgets[1].spent = 60
  /\ budgets[1].alertThreshold = 1
  /\ statusRead = {"safe"}

(***************************************************************************)
(* Properties of the requests served by a store that may reject a write.   *)
(***************************************************************************)
\* C7: when a cache reconciliation (Budget.updateStats or
\* Category.updateStats) fails after the Expense write of createExpense,
\* updateExpense or deleteExpense was persisted, the request still reports
\* success
C7_ReconcileFailureIsolated ==
  \A s \in Slots :
     (reqs[s].op \in ExpenseOps /\ reqs[s].wrote)
        => reqs[s].status = okStatus(reqs[s].op)

(***************************************************************************)
(* Properties of the concurrent specifications.                            *)
(***************************************************************************)
\* C8: when expense mutations touching the same bucket run concurrently,
\* once the requests have finished the bucket's Budget.spent equals the
\* sum of the bucket's active expenses, whatever the interleaving of
\* their write-expense, read-aggregate and write-budget steps
C8_NoLostUpdate ==
  quiescent => reconciled(expenses, budgets)

\* C9: the spent a request persists in a Budget row is the sum of the
\* bucket's active expenses at the instant of its aggregation, which comes
\* after its own expense write; its save() persists that value or leaves
\* the row's spent alone
C9_SpentIsASnapshot ==
  [][\A s \in Slots :
        /\ (reqs[s].pc = "agg" /\ reqs'[s].pc = "save") =>
             /\ reqs[s].op \in ExpenseOps => reqs[s].wrote
             /\ reqs'[s].docs[1].cur.spent
                  = bucketSum(expenses, reqs[s].docs[1].cur)
        /\ (reqs[s].pc = "save" /\ reqs'[s].pc # "save") =>
             LET doc == reqs[s].docs[1]
             IN budgets'[doc.id].spent
                  \in {budgets[doc.id].spent, doc.cur.spent}]_vars

(***************************************************************************)
(* Properties of the renewal of budgets.                                   *)
(***************************************************************************)
\* C10: of two createFromPreviousMonth calls in sequence for the same
\* target month, the second returns no new budget and changes no field of
\* any Budget row (nor anything else in the store)
C10_SecondRenewalCreatesNothing ==
  \A p \in Periods :
     LET first == run(DB, autoCreateBudgetsReq(p), 0)
         second == run(first.db, autoCreateBudgetsReq(p), 0)
     IN first.r.status = 200 =>
          /\ second.r.status = 200
          /\ second.r.created = 0
          /\ second.db = first.db

\* renewed budgets of January 2025, one per category
renewed == {i \in DOMAIN budgets : budgets[i].year = 2025}

\* a renewal has just found both December budgets already renewed, one of
\* them with its amount changed since, and created nothing
C10_Witness ==
  /\ reqs[1].op = "autoCreateBudgets" /\ reqs[1].status = 200
  /\ reqs[1].created = 0
  /\ {budgets[i].categoryId : i \in renewed} = CategoryIds
  /\ Cardinality(previousBudgets(budgets, [year |-> 2025, month |-> 1])) = 2
  /\ \E i \in renewed : budgets[i].amount = 50

(***************************************************************************)
(* Renewal with expenses already recorded in the target month.             *)
(***************************************************************************)
\* expenses of December and January, budgets of December, and their renewal
\* into January 2025
NextRenew ==
  \/ CreateExpense(ExpenseAmounts, JustCategoryA, {December, January},
                   NoFailure)
  \/ DeleteExpense(NoFailure)
  \/ CreateBudget(JustCategoryA, {100}, {[year |-> 2024, month |-> 12]},
                  {UndefNum}, NoFailure)
  \/ AutoCreateBudgets({[year |-> 2025, month |-> 1]}, NoFailure)
  \/ GetBudget(NoFailure)

SpecRenew == Init /\ [][NextRenew]_vars

\* C11: every budget created by createFromPreviousMonth is reconciled
\* before the call returns: its spent is the sum of the active expenses
\* already in its bucket, not 0
C11_RenewedBudgetIsReconciled ==
  [][(reqs'[1].op = "autoCreateBudgets" /\ Len(budgets') > Len(budgets)) =>
       \A i \in (Len(budgets) + 1)..Len(budgets') :
          budgets'[i].spent = bucketSum(expenses', budgets'[i])]_vars

(***************************************************************************)
(* Properties of the Category cache.                                       *)
(***************************************************************************)
\* the active expenses that reference category c
activeOf(exps, c) ==
  {i \in DOMAIN exps : exps[i].isActive /\ exps[i].category = c}

\* C12: after any sequence of createExpense, updateExpense and
\* deleteExpense served one at a time, every Category's totalExpenses is
\* the sum, and its lastUsed the latest date, of the active expenses that
\* reference it (0 and null when there is none)
C12_CategoryCacheIsExact ==
  \A c \in CategoryIds :
     /\ categories[c].totalExpenses = SumAmounts(expenses, activeOf(expenses, c))
     /\ categories[c].lastUsed = MaxDate(expenses, activeOf(expenses, c))

(***************************************************************************)
(* Reads: the statistics handlers, getFamily and the dashboard, among      *)
(* requests that record and soft-delete expenses and incomes.              *)
(***************************************************************************)
\* a request served from start to response in slot 1, o being what its
\* handler makes of the database and the request
Serve(o) ==
  /\ expenses' = o.db.expenses
  /\ budgets' = o.db.budgets
  /\ categories' = o.db.categories
  /\ incomes' = o.db.incomes
  /\ users' = o.db.users
  /\ families' = o.db.families
  /\ reqs' = [reqs EXCEPT ![1] = o.r]

CreateIncome(amounts, dates, fails) ==
  \E a \in amounts, d \in dates, n \in fails :
     /\ Len(incomes) < MaxIncomes
     /\ Serve(createIncome(DB, createIncomeReq(a, d), n = 1))

DeleteIncome(fails) ==
  \E id \in 1..(Len(incomes) + 1), n \in fails :
     Serve(deleteIncome(DB, deleteIncomeReq(id), n = 1))

\* the reads are served when no other request is being served
GetExpenseStats(periods) ==
  \E p \in periods :
     /\ reqs[1].pc = "done"
     /\ Serve(getExpenseStats(DB, getExpenseStatsReq(p)))

GetIncomeStats(periods) ==
  \E p \in periods :
     /\ reqs[1].pc = "done"
     /\ Serve(getIncomeStats(DB, getIncomeStatsReq(p)))

GetFamily(nows) ==
  \E now \in nows :
     /\ reqs[1].pc = "done"
     /\ Serve(getFamily(DB, getFamilyReq(now)))

\* ranges: the pairs <<startDate, endDate>> the request may carry
Dashboard(ranges, nows) ==
  \E range \in ranges, now \in nows :
     /\ reqs[1].pc = "done"
     /\ Serve(dashboard(DB, dashboardReq(range[1], range[2], now)))

NextReads ==
  \/ CreateExpense({60}, JustCategoryA, {December, January}, NoFailure)
  \/ DeleteExpense(NoFailure)
  \/ CreateIncome({100}, {January}, NoFailure)
  \/ DeleteIncome(NoFailure)
  \/ GetExpenseStats({[year |-> 2025, month |-> 1]})
  \/ GetIncomeStats({[year |-> 2025, month |-> 1]})
  \/ GetFamily({January})
  \/ Dashboard({<<NoDate, NoDate>>, <<December, NoDate>>}, {January})

SpecReads == Init /\ [][NextReads]_vars

\* the database without its soft-deleted expenses and incomes
activeOnly(db) ==
  [db EXCEPT !.expenses = SelectSeq(@, LAMBDA e : e.isActive),
             !.incomes = SelectSeq(@, LAMBDA e : e.isActive)]

\* C13: no read aggregation counts a soft-deleted transaction: what
\* getExpenseStats and getIncomeStats (getMonthlyStats, getYearlyStats),
\* the dashboard (stats, expensesByCategory, monthlyTrend) and getFamily
\* (Family.getStats) answer is what they would answer with the inactive
\* expenses and incomes removed from the store
C13_ReadsIgnoreInactive ==
  \A s \in Slots :
     LET r == reqs[s]
         act == activeOnly(DB)
     IN /\ r.op = "getExpenseStats" =>
             r.body = getExpenseStats(act,
                        getExpenseStatsReq(r.body.period)).r.body
        /\ r.op = "getIncomeStats" =>
             r.body = getIncomeStats(act,
                        getIncomeStatsReq(r.body.period)).r.body
        /\ r.op = "dashboard" =>
             LET d == dashboardData(act,
                        dashboardReq(r.body.appliedFilters.startDate,
                                     r.body.appliedFilters.endDate, r.now))
             IN /\ r.body.stats = d.stats
                /\ r.body.expensesByCategory = d.expensesByCategory
                /\ r.body.monthlyTrend = d.monthlyTrend
        /\ r.op = "getFamily" => r.body = getStats(act, r.now)

(***************************************************************************)
(* Properties of the reconciliation window.                                *)
(***************************************************************************)
\* the months whose window startDate .. endDate contains the date d
windowsOf(d) ==
  {p \in Periods :
     /\ getTime(startDate(p.year, p.month)) <= getTime(d)
     /\ getTime(d) <= getTime(endDate(p.year, p.month))}

\* C14: the date of every expense lies in the window of exactly one month,
\* the (year, month) under which the handlers look its budget up: the
\* windows of consecutive months leave no instant, and so no expense,
\* between them
C14_WindowsPartitionTime ==
  \A i \in DOMAIN expenses :
     LET key == bucketKey(expenses[i].category, expenses[i].date)
     IN windowsOf(expenses[i].date)
          = {[year |-> key.year, month |-> key.month]}

(***************************************************************************)
(* Conservation: the budgets of a month against its monthly statistics.    *)
(***************************************************************************)
GetBudgetSummary(periods) ==
  \E p \in periods :
     /\ reqs[1].pc = "done"
     /\ Serve(getBudgetSummary(DB, getBudgetSummaryReq(p)))

\* expenses of both categories up to the last second of January, budgets
\* of January, and the two reads
NextConserve ==
  \/ CreateExpense({60}, CategoryIds, {January, JanuaryEnd}, NoFailure)
  \/ DeleteExpense(NoFailure)
  \/ CreateBudget(CategoryIds, {100}, {[year |-> 2025, month |-> 1]},
                  {UndefNum}, NoFailure)
  \/ GetExpenseStats({[year |-> 2025, month |-> 1]})
  \/ GetBudgetSummary({[year |-> 2025, month |-> 1]})

SpecConserve == Init /\ [][NextConserve]_vars

\* every category with active expenses dated in the month p has an active
\* Budget row of p, and the active Budget rows of p are reconciled: their
\* spent is what updateStats computes from the expenses now recorded
coveredAndReconciled(p) ==
  /\ \A i \in DOMAIN expenses :
        (/\ expenses[i].isActive /\ expenses[i].familyId = Family
         /\ getFullYear(expenses[i].date) = p.year
         /\ getMonth1(expenses[i].date) = p.month)
          => \E j \in getBudgetsForMonth(budgets, p.year, p.month) :
                budgets[j].categoryId = expenses[i].category
  /\ \A j \in getBudgetsForMonth(budgets, p.year, p.month) :
        budgets[j].spent = updateStatsFields(expenses, budgets[j]).spent

\* C15: when every category with active expenses in a month has an active,
\* reconciled Budget row, the sum of Budget.spent over the budgets of the
\* month (the totalSpent of getBudgetSummary) equals the total of
\* Expense.getMonthlyStats over the categories (the totalAmount of
\* getExpenseStats)
C15_SpentSumsToMonthlyTotal ==
  \A s \in Slots :
     (/\ reqs[s].op = "getExpenseStats"
      /\ coveredAndReconciled(reqs[s].body.period))
       => reqs[s].body.totalAmount
            = getBudgetSummary(DB,
                getBudgetSummaryReq(reqs[s].body.period)).r.body.totalSpent

\* the statistics of January were read with a budget for each category,
\* one expense inside the window of each and both reconciled
C15_Witness ==
  /\ reqs[1].op = "getExpenseStats" /\ reqs[1].body.totalAmount = 120
  /\ coveredAndReconciled([year |-> 2025, month |-> 1])
  /\ Cardinality(getBudgetsForMonth(budgets, 2025, 1)) = 2
  /\ \A j \in getBudgetsForMonth(budgets, 2025, 1) : budgets[j].spent = 60

(***************************************************************************)
(* The refresh of the budgets of a month.                                  *)
(***************************************************************************)
RefreshBudgetStats(periods, fails) ==
  \E p \in periods, n \in fails :
     /\ reqs[1].pc = "done"
     /\ Serve(refreshBudgetStats(DB, refreshBudgetStatsReq(p), n))

\* expenses of January up to its last second, budgets of December renewed
\* into January (which leaves them unreconciled), and the refresh of
\* January by a store that may reject one of its writes
NextRefresh ==
  \/ CreateExpense({60}, JustCategoryA, {January, JanuaryEnd}, NoFailure)
  \/ DeleteExpense(NoFailure)
  \/ CreateBudget(CategoryIds, {100}, {[year |-> 2024, month |-> 12]},
                  {UndefNum}, NoFailure)
  \/ AutoCreateBudgets({[year |-> 2025, month |-> 1]}, NoFailure)
  \/ RefreshBudgetStats({[year |-> 2025, month |-> 1]}, Failures)

SpecRefresh == Init /\ [][NextRefresh]_vars

\* C16: after a refreshBudgetStats served alone has answered with success,
\* every active Budget of the month has spent, remaining and percentageUsed
\* derived from the active expenses now in its bucket, whatever the row
\* held before; and a refresh in which a reconciliation failed answers
\* with an error
C16_RefreshRepairs ==
  \A s \in Slots :
     reqs[s].op = "refreshBudgetStats" =>
       /\ reqs[s].status = 200 =>
            \A j \in getBudgetsForMonth(budgets, reqs[s].body.period.year,
                                        reqs[s].body.period.month) :
               /\ budgets[j].spent = bucketSum(expenses, budgets[j])
               /\ budgets[j].remaining = budgets[j].amount - budgets[j].spent
               /\ budgets[j].percentageUsed
                    = percentageOf(budgets[j].spent, budgets[j].amount)
       /\ reqs[s].warned => reqs[s].status = 500

(***************************************************************************)
(* The dashboard among requests that record expenses, incomes and budgets. *)
(* It is requested in January 2025, without filters or with a range whose  *)
(* ends lie inside December 2024 and January 2025.                         *)
(***************************************************************************)
\* no filter; mid December .. mid January; a range that ends before it
\* starts; only an end; only a start
DashboardRanges ==
  {<<NoDate, NoDate>>, <<DecemberMid, JanuaryMid>>, <<JanuaryMid, December>>,
   <<NoDate, JanuaryMid>>, <<DecemberMid, NoDate>>}

NextDashboard ==
  \/ CreateExpense({60}, JustCategoryA, {December, JanuaryEnd}, NoFailure)
  \/ DeleteExpense(NoFailure)
  \/ CreateIncome({100}, {December}, NoFailure)
  \/ CreateBudget(JustCategoryA, {100}, {[year |-> 2025, month |-> 1]},
                  {UndefNum}, NoFailure)
  \/ Dashboard(DashboardRanges, {JanuaryMid})

SpecDashboard == Init /\ [][NextDashboard]_vars

\* the position of a month on the time line
monthIndex(d) == (d.year * 12) + (d.month - 1)

\* the family's active rows, and those dated in the month of index n
activeRows(rows) ==
  {i \in DOMAIN rows : rows[i].familyId = Family /\ rows[i].isActive}
activeInMonth(rows, n) ==
  {i \in activeRows(rows) : monthIndex(rows[i].date) = n}

\* the dashboard answers of the requests without and with a date filter
unfiltered(r) ==
  /\ r.op = "dashboard" /\ r.status = 200
  /\ r.body.appliedFilters.startDate = NoDate
  /\ r.body.appliedFilters.endDate = NoDate
filtered(r) ==
  /\ r.op = "dashboard" /\ r.status = 200
  /\ ~(/\ r.body.appliedFilters.startDate = NoDate
       /\ r.body.appliedFilters.endDate = NoDate)

\* stats, expensesByCategory and recentTransactions of the answer body
\* cover exactly the expenses exps and the incomes incs
covers(body, exps, incs) ==
  LET e == SumAmounts(expenses, exps)
      i == SumAmounts(incomes, incs)
  IN /\ body.stats.monthlyExpenses = e
     /\ body.stats.monthlyIncome = i
     /\ body.stats.balance = i - e
     /\ body.stats.savings = IF i - e > 0 THEN i - e ELSE 0
     /\ body.expensesByCategory =
          [c \in {expenses[x].category : x \in exps} |->
             SumAmounts(expenses, {x \in exps : expenses[x].category = c})]
     /\ body.recentTransactions = [expenses |-> exps, incomes |-> incs]

\* monthlyTrend holds the 6 months ending at the current one, oldest
\* first, each with the totals of the month
trailingSixMonths(r) ==
  /\ Len(r.body.monthlyTrend) = 6
  /\ \A k \in 1..6 :
        LET n == monthIndex(r.now) - (6 - k)
            bucket == r.body.monthlyTrend[k]
        IN /\ monthIndex(bucket) = n
           /\ bucket.expenses
                = SumAmounts(expenses, activeInMonth(expenses, n))
           /\ bucket.incomes
                = SumAmounts(incomes, activeInMonth(incomes, n))

insideFilter(rows, body) ==
  {i \in activeRows(rows) :
     /\ body.appliedFilters.startDate # NoDate =>
          getTime(rows[i].date) >= getTime(body.appliedFilters.startDate)
     /\ body.appliedFilters.endDate # NoDate =>
          \/ monthIndex(rows[i].date) < monthIndex(body.appliedFilters.endDate)
          \/ /\ monthIndex(rows[i].date)
                  = monthIndex(body.appliedFilters.endDate)
             /\ \/ rows[i].date.tick <= body.appliedFilters.endDate.tick
                \/ body.appliedFilters.endDate.tick
                     >= MonthTicks - TicksPerSecond}

C19_TrendCoversEveryMonthOnce ==
  \A s \in Slots :
     filtered(reqs[s]) =>
       LET f == reqs[s].body.appliedFilters
           first == IF f.startDate # NoDate THEN monthIndex(f.startDate)
                    ELSE (2020 * 12) + 0
           last == IF f.endDate # NoDate THEN monthIndex(f.endDate)
                   ELSE monthIndex(reqs[s].now)
           trend == reqs[s].body.monthlyTrend
       IN /\ Len(trend) = IF last >= first THEN (last - first) + 1 ELSE 0
          /\ \A k \in DOMAIN trend :
                /\ monthIndex(trend[k]) = first + (k - 1)
                /\ trend[k].month \in 1..12

\* a dashboard for mid December 2024 .. mid January 2025 was answered
\* with the two buckets 2024-12 and 2025-01
C19_Witness ==
  /\ filtered(reqs[1])
  /\ reqs[1].body.appliedFilters.startDate = DecemberMid
  /\ reqs[1].body.appliedFilters.endDate = JanuaryMid
  /\ Len(reqs[1].body.monthlyTrend) = 2
  /\ reqs[1].body.monthlyTrend[1].year = 2024
  /\ reqs[1].body.monthlyTrend[1].month = 12
  /\ reqs[1].body.monthlyTrend[2].year = 2025
  /\ reqs[1].body.monthlyTrend[2].month = 1

\* C20: a dashboard request changes no persisted Budget row, whatever
\* filters are given
C20_DashboardWritesNoBudget ==
  [][reqs'[1].op = "dashboard" => budgets' = budgets]_vars

\* a dashboard was answered with an alert whose spent, taken over the
\* filtered period, differs from the spent persisted in the budget
C20_Witness ==
  /\ reqs[1].op = "dashboard" /\ reqs[1].status = 200
  /\ \E i \in DOMAIN reqs[1].body.budgetAlerts :
        /\ reqs[1].body.budgetAlerts[i].spent = 60
        /\ budgets[i].spent = 0

(***************************************************************************)
(* The status of the dashboard's budget alerts.                            *)
(***************************************************************************)
\* budgets with the default threshold, then set to 0 or 80 by updateBudget,
\* and dashboards without filters
NextAlerts ==
  \/ CreateExpense({60}, JustCategoryA, {December, January}, NoFailure)
  \/ DeleteExpense(NoFailure)
  \/ CreateBudget(JustCategoryA, {100}, {[year |-> 2025, month |-> 1]},
                  {UndefNum}, NoFailure)
  \/ UpdateBudget({}, Thresholds, NoFailure)
  \/ Dashboard({<<NoDate, NoDate>>}, {JanuaryMid})

SpecAlerts == Init /\ [][NextAlerts]_vars

\* C21: the status of every budget alert of a dashboard is the status rule
\* of the data model (exceeded from 100, warning from alertThreshold,
\* normal from 50, else safe) applied to the overlay percentage
\* spent / amount * 100 and the budget's own alertThreshold
C21_AlertStatusFollowsRule ==
  (reqs[1].op = "dashboard" /\ reqs[1].status = 200) =>
    \A i \in DOMAIN reqs[1].body.budgetAlerts :
       LET a == reqs[1].body.budgetAlerts[i]
       IN a.status = status(percentageOf(a.spent, a.budget.amount),
                            a.budget.alertThreshold)

\* a dashboard answered with a successful payload although its endDate lies
\* before its startDate
invertedAnswered(r) ==
  /\ filtered(r)
  /\ r.body.appliedFilters.startDate # NoDate
  /\ r.body.appliedFilters.endDate # NoDate
  /\ getTime(r.body.appliedFilters.endDate)
       < getTime(r.body.appliedFilters.startDate)

\* C22: a dashboard request whose date range is inverted (endDate before
\* startDate) is rejected with an error: it is never answered with a
\* successful payload
C22_InvertedRangeIsRejected ==
  \A s \in Slots : ~invertedAnswered(reqs[s])

(***************************************************************************)
(* The key of a budget: createBudget and autoCreateBudgets racing on the   *)
(* same (family, category, year, month).                                   *)
(***************************************************************************)
StartCreateBudget(cats, amounts, periods) ==
  \E s \in Slots, c \in cats, a \in amounts, p \in periods :
     /\ Len(budgets) < MaxBudgets
     /\ Begin(s, createBudgetReq(c, a, p, UndefNum))

StartAutoCreateBudgets(periods) ==
  \E s \in Slots, p \in periods :
     /\ Len(budgets) < MaxBudgets
     /\ Begin(s, autoCreateBudgetsReq(p))

\* budget.save() of createBudget resolves
InsertBudget == \E s \in Slots : reqs[s].pc = "insert" /\ Resume(s)

\* the findOne of createFromPreviousMonth for the target month resolves
AutoCreateExists == \E s \in Slots : reqs[s].pc = "exists" /\ Resume(s)

\* newBudget.save() of createFromPreviousMonth resolves
AutoCreateInsert == \E s \in Slots : reqs[s].pc = "autoInsert" /\ Resume(s)

NextKeys ==
  \/ StartCreateBudget(JustCategoryA, {100}, Periods)
  \/ StartAutoCreateBudgets({[year |-> 2025, month |-> 1]})
  \/ InsertBudget
  \/ AutoCreateExists
  \/ AutoCreateInsert
  \/ Aggregate
  \/ SaveStats
  \/ quiescent /\ DeleteBudget(NoFailure)

SpecKeys == Init /\ [][NextKeys]_vars

\* the (family, category, year, month) key of a Budget row
keyOfBudget(b) == <<b.familyId, b.categoryId, b.year, b.month>>

\* C23: no two Budget rows share one (family, category, year, month) key,
\* also while createBudget and autoCreateBudgets requests race on the key,
\* and a createBudget for a key that a row already holds is rejected (400)
\* and leaves every row unchanged
C23_BudgetKeyIsUnique ==
  /\ \A i, j \in DOMAIN budgets :
        keyOfBudget(budgets[i]) = keyOfBudget(budgets[j]) => i = j
  /\ \A i \in DOMAIN budgets :
        LET o == run(DB, createBudgetReq(budgets[i].categoryId, 100,
                           [year |-> budgets[i].year,
                            month |-> budgets[i].month], UndefNum), 0)
        IN o.r.status = 400 /\ o.db = DB

\* autoCreateBudgets lost the race for the January key: its insert was
\* rejected by the unique index after a createBudget had inserted the row
C23_Witness ==
  /\ \E s \in Slots :
        reqs[s].op = "autoCreateBudgets" /\ reqs[s].status = 500
  /\ \E s \in Slots : reqs[s].op = "createBudget" /\ reqs[s].status = 201
  /\ \E i \in DOMAIN budgets : budgets[i].year = 2025

(***************************************************************************)
(* The history of a budget.                                                *)
(***************************************************************************)
\* one budget whose amount is changed again and again, also to the amount
\* it already has and to an amount the schema rejects, among expenses of
\* its bucket
NextHistory ==
  \/ CreateExpense({60}, JustCategoryA, {January}, NoFailure)
  \/ CreateBudget(JustCategoryA, {100}, {[year |-> 2025, month |-> 1]},
                  {UndefNum}, NoFailure)
  \/ UpdateBudget({-5, 50, 100}, {}, Failures)
  \/ GetBudget(NoFailure)

SpecHistory == Init /\ [][NextHistory]_vars

\* the last n entries of a sequence
lastEntries(seq, n) ==
  IF Len(seq) > n THEN SubSeq(seq, (Len(seq) - n) + 1, Len(seq)) ELSE seq

StartUpdateBudget(amounts) ==
  \E s \in Slots, id \in DOMAIN budgets, a \in amounts :
     Begin(s, updateBudgetReq(id, a, UndefNum))

\* budget.save() of updateBudget resolves
SaveBudget == \E s \in Slots : reqs[s].pc = "bsave" /\ Resume(s)

NextAmount ==
  \/ StartCreateExpense({60}, JustCategoryA, {January})
  \/ StartUpdateBudget({50})
  \/ StartGetBudget
  \/ FindBudgets
  \/ Aggregate
  \/ SaveBudget
  \/ SaveStats
  \/ /\ quiescent
     /\ CreateBudget(JustCategoryA, {100}, {[year |-> 2025, month |-> 1]},
                     {UndefNum}, NoFailure)

SpecAmount == Init /\ [][NextAmount]_vars

\* C25: every persisted Budget row has remaining = amount - spent and
\* percentageUsed = (amount > 0 ? spent / amount * 100 : 0) at all times,
\* also while an updateBudget that changes the amount interleaves with a
\* reconciliation of the same budget
C25_DerivedFieldsAgree ==
  \A i \in DOMAIN budgets :
     /\ budgets[i].remaining = budgets[i].amount - budgets[i].spent
     /\ budgets[i].percentageUsed =
          percentageOf(budgets[i].spent, budgets[i].amount)

\* C26: createBudget is rejected as a duplicate only when an active Budget
\* holds the key: for a key whose budget was soft-deleted by deleteBudget,
\* a createBudget succeeds (201) and leaves an active budget for the key
C26_DeletedKeyCanBeCreatedAgain ==
  \A i \in DOMAIN budgets :
     (~\E j \in DOMAIN budgets :
          /\ keyOfBudget(budgets[j]) = keyOfBudget(budgets[i])
          /\ budgets[j].isActive)
       => LET o == run(DB, createBudgetReq(budgets[i].categoryId, 100,
                             [year |-> budgets[i].year,
                              month |-> budgets[i].month], UndefNum), 0)
          IN /\ o.r.status = 201
             /\ \E j \in DOMAIN o.db.budgets :
                   /\ keyOfBudget(o.db.budgets[j]) = keyOfBudget(budgets[i])
                   /\ o.db.budgets[j].isActive

(***************************************************************************)
(* Families, invitations and accounts (familyController,                   *)
(* profileController).  There is one family; req.user is the User          *)
(* document that authenticate loads for the request.                       *)
(***************************************************************************)
\* the days an invitation stays valid: an invitation made at the first
\* instant of a month expires on a mid-month day of that month
inviteExpiry(now) == Date(now.year, now.month, now.tick + 1)

\* Family.findById
findFamilyById(db, id) == id \in DOMAIN db.families /\ db.families[id].exists

\* array.find(pred): the index of the first element that satisfies it, or 0
firstIndex(seq, ok(_)) ==
  IF \E k \in DOMAIN seq : ok(seq[k])
  THEN CHOOSE k \in DOMAIN seq :
         ok(seq[k]) /\ \A j \in DOMAIN seq : ok(seq[j]) => k <= j
  ELSE 0

\* inviteMember: the admin check, the checks on the invited email, then the
\* new pending invitation; its token is the number of the invitation
inviteMember(db, r) ==
  LET me == db.users[r.user]
      f == me.familyId
  IN IF me.role # "admin" THEN Out(db, respond(r, 403))
     ELSE IF ~findFamilyById(db, f) THEN Out(db, respond(r, 404))
     ELSE IF /\ r.email \in UserIds /\ db.users[r.email].exists
             /\ db.users[r.email].familyId # NoFamily
     THEN Out(db, respond(r, 400))
     ELSE IF \E k \in DOMAIN db.families[f].invitations :
               /\ db.families[f].invitations[k].email = r.email
               /\ db.families[f].invitations[k].status = "pending"
     THEN Out(db, respond(r, 400))
     ELSE Out([db EXCEPT !.families[f].invitations =
                 Append(@, [email |-> r.email, role |-> r.role,
                            token |-> Len(@) + 1,
                            expiresAt |-> inviteExpiry(r.now),
                            createdAt |-> r.now, status |-> "pending"])],
              respond([r EXCEPT !.wrote = TRUE], 201))

\* the Family.findOne of joinFamily: each condition on the invitations
\* array is met by some invitation, not necessarily the same one
joinFindOne(db, r) ==
  {f \in DOMAIN db.families :
     /\ db.families[f].exists
     /\ \E k \in DOMAIN db.families[f].invitations :
           db.families[f].invitations[k].token = r.token
     /\ \E k \in DOMAIN db.families[f].invitations :
           getTime(db.families[f].invitations[k].expiresAt) > getTime(r.now)
     /\ \E k \in DOMAIN db.families[f].invitations :
           db.families[f].invitations[k].status = "pending"}

\* joinFamily
joinFamily(db, r) ==
  LET me == db.users[r.user]
      found == joinFindOne(db, r)
  IN IF me.familyId # NoFamily THEN Out(db, respond(r, 400))
     ELSE IF found = {} THEN Out(db, respond(r, 400))
     ELSE
       LET f == CHOOSE x \in found : TRUE
           isInvitation(inv) == inv.token = r.token /\ inv.status = "pending"
           k == firstIndex(db.families[f].invitations, isInvitation)
       IN IF k = 0 THEN Out(db, respond(r, 400))
          ELSE IF db.families[f].invitations[k].email # r.user
          THEN Out(db, respond(r, 400))
          ELSE LET role == db.families[f].invitations[k].role
               IN Out([db EXCEPT
                         !.families[f].members =
                            Append(@, [user |-> r.user, role |-> role,
                                       isActive |-> TRUE]),
                         !.families[f].invitations[k].status = "accepted",
                         !.users[r.user].familyId = f,
                         !.users[r.user].role = role],
                      respond([r EXCEPT !.wrote = TRUE], 200))

\* cancelInvitation: family.invitations.id(invitationId), whatever its status
cancelInvitation(db, r) ==
  LET me == db.users[r.user]
      f == me.familyId
  IN IF me.role # "admin" THEN Out(db, respond(r, 403))
     ELSE IF ~findFamilyById(db, f) THEN Out(db, respond(r, 404))
     ELSE IF r.token \notin DOMAIN db.families[f].invitations
     THEN Out(db, respond(r, 404))
     ELSE Out([db EXCEPT !.families[f].invitations[r.token].status =
                 "cancelled"],
              respond([r EXCEPT !.wrote = TRUE], 200))

\* User.findByIdAndUpdate(id, fields): nothing when the user is gone
updateUser(us, id, familyId, role) ==
  IF id \in DOMAIN us /\ us[id].exists
  THEN [us EXCEPT ![id].familyId = familyId, ![id].role = role]
  ELSE us

\* updateMemberRole: the role in the member list, then in the User
updateMemberRole(db, r) ==
  LET me == db.users[r.user]
      f == me.familyId
      isMember(m) == m.user = r.target /\ m.isActive
  IN IF me.role # "admin" THEN Out(db, respond(r, 403))
     ELSE IF r.target = r.user THEN Out(db, respond(r, 400))
     ELSE IF ~findFamilyById(db, f) THEN Out(db, respond(r, 404))
     ELSE LET k == firstIndex(db.families[f].members, isMember)
          IN IF k = 0 THEN Out(db, respond(r, 404))
             ELSE Out([db EXCEPT
                         !.families[f].members[k].role = r.role,
                         !.users = updateUser(@, r.target,
                                              @[r.target].familyId, r.role)],
                      respond([r EXCEPT !.wrote = TRUE], 200))

\* removeMember: the member is deactivated in the list, the User leaves
\* the family and becomes a plain member
removeMember(db, r) ==
  LET me == db.users[r.user]
      f == me.familyId
      isMember(m) == m.user = r.target /\ m.isActive
  IN IF me.role # "admin" THEN Out(db, respond(r, 403))
     ELSE IF r.target = r.user THEN Out(db, respond(r, 400))
     ELSE IF ~findFamilyById(db, f) THEN Out(db, respond(r, 404))
     ELSE LET k == firstIndex(db.families[f].members, isMember)
          IN IF k = 0 THEN Out(db, respond(r, 404))
             ELSE Out([db EXCEPT
                         !.families[f].members[k].isActive = FALSE,
                         !.users = updateUser(@, r.target, NoFamily,
                                              "member")],
                      respond([r EXCEPT !.wrote = TRUE], 200))

\* leaveFamily: refused to the last active admin of the member list
leaveFamily(db, r) ==
  LET me == db.users[r.user]
      f == me.familyId
      isMe(m) == m.user = r.user /\ m.isActive
  IN IF f = NoFamily THEN Out(db, respond(r, 400))
     ELSE IF ~findFamilyById(db, f) THEN Out(db, respond(r, 404))
     ELSE
       LET members == db.families[f].members
           activeAdmins == {k \in DOMAIN members :
                              members[k].isActive /\ members[k].role = "admin"}
           k == firstIndex(members, isMe)
       IN IF me.role = "admin" /\ Cardinality(activeAdmins) = 1
          THEN Out(db, respond(r, 400))
          ELSE Out([db EXCEPT
                      !.families[f].members =
                         IF k = 0 THEN @ ELSE [@ EXCEPT ![k].isActive = FALSE],
                      !.users[r.user].familyId = NoFamily,
                      !.users[r.user].role = "member"],
                   respond([r EXCEPT !.wrote = TRUE], 200))

\* a row that deleteMany removed: it belongs to no family, so that no query
\* finds it, and the _id of the other rows stay what they were
deletedRow(row) == [row EXCEPT !.familyId = Undef, !.isActive = FALSE]

\* Model.deleteMany(filter)
deleteMany(rows, matches(_)) ==
  [i \in DOMAIN rows |-> IF matches(rows[i]) THEN deletedRow(rows[i])
                         ELSE rows[i]]

\* $pull: { members: { user: userId } }
pullMember(members, userId) ==
  SelectSeq(members, LAMBDA m : m.user # userId)

\* deleteAccount, once the password is verified
deleteAccount(db, r) ==
  LET me == db.users[r.user]
      f == me.familyId
      hasFamily == f # NoFamily /\ findFamilyById(db, f)
      members == IF hasFamily THEN db.families[f].members ELSE <<>>
      ofFamily(row) == row.familyId = f
      ofUser(row) == row.userId = r.user
      isOther(m) == m.user # r.user
      userData == [db EXCEPT
                     !.expenses = deleteMany(@, ofUser),
                     !.incomes = deleteMany(@, ofUser),
                     !.users[r.user].exists = FALSE]
  IN IF ~me.exists THEN Out(db, respond(r, 404))
     ELSE IF hasFamily /\ Len(members) = 1
     THEN Out([db EXCEPT
                 !.expenses = deleteMany(@, ofFamily),
                 !.incomes = deleteMany(@, ofFamily),
                 !.budgets = deleteMany(@, ofFamily),
                 !.families[f].exists = FALSE,
                 !.users[r.user].exists = FALSE],
              respond([r EXCEPT !.wrote = TRUE], 200))
     ELSE IF hasFamily /\ Len(members) > 1 /\ me.role # "admin"
     THEN Out([userData EXCEPT
                 !.families[f].members = pullMember(@, r.user)],
              respond([r EXCEPT !.wrote = TRUE], 200))
     ELSE IF hasFamily /\ Len(members) > 1 /\ me.role = "admin"
     THEN LET next == firstIndex(members, isOther)
          IN IF next = 0 THEN Out(db, respond(r, 400))
             ELSE
               LET isNext(m) == m.user = members[next].user
                   promoted == [members EXCEPT
                                  ![firstIndex(members, isNext)].role =
                                     "admin"]
               IN Out([userData EXCEPT
                         !.families[f].members =
                            pullMember(promoted, r.user)],
                      respond([r EXCEPT !.wrote = TRUE], 200))
     ELSE Out(db, respond(r, 400))

inviteMemberReq(user, email, role, now) ==
  [Request("inviteMember") EXCEPT
     !.user = user, !.email = email, !.role = role, !.now = now]
joinFamilyReq(user, token, now) ==
  [Request("joinFamily") EXCEPT !.user = user, !.token = token, !.now = now]
cancelInvitationReq(user, token) ==
  [Request("cancelInvitation") EXCEPT !.user = user, !.token = token]
updateMemberRoleReq(user, target, role) ==
  [Request("updateMemberRole") EXCEPT
     !.user = user, !.target = target, !.role = role]
removeMemberReq(user, target) ==
  [Request("removeMember") EXCEPT !.user = user, !.target = target]
leaveFamilyReq(user) == [Request("leaveFamily") EXCEPT !.user = user]
deleteAccountReq(user) == [Request("deleteAccount") EXCEPT !.user = user]

\* authenticate lets the request of an existing user through
authenticated(u) == users[u].exists

\* the clock of the server does not run backwards
notBefore(now) ==
  \A f \in DOMAIN families :
     \A k \in DOMAIN families[f].invitations :
        getTime(families[f].invitations[k].createdAt) <= getTime(now)

InviteMember(emails, roles, nows) ==
  \E u \in UserIds, e \in emails, role \in roles, now \in nows :
     /\ \A f \in DOMAIN families :
           Len(families[f].invitations) < MaxInvitations
     /\ authenticated(u) /\ notBefore(now)
     /\ Serve(inviteMember(DB, inviteMemberReq(u, e, role, now)))

JoinFamily(nows) ==
  \E u \in UserIds, f \in DOMAIN families, now \in nows :
     \E t \in DOMAIN families[f].invitations :
        /\ authenticated(u) /\ notBefore(now)
        /\ Serve(joinFamily(DB, joinFamilyReq(u, t, now)))

CancelInvitation ==
  \E u \in UserIds, f \in DOMAIN families :
     \E t \in DOMAIN families[f].invitations :
        /\ authenticated(u)
        /\ Serve(cancelInvitation(DB, cancelInvitationReq(u, t)))

UpdateMemberRole(roles) ==
  \E u \in UserIds, target \in UserIds, role \in roles :
     /\ authenticated(u)
     /\ Serve(updateMemberRole(DB, updateMemberRoleReq(u, target, role)))

RemoveMember ==
  \E u \in UserIds, target \in UserIds :
     /\ authenticated(u)
     /\ Serve(removeMember(DB, removeMemberReq(u, target)))

LeaveFamily ==
  \E u \in UserIds :
     /\ authenticated(u)
     /\ Serve(leaveFamily(DB, leaveFamilyReq(u)))

DeleteAccount ==
  \E u \in UserIds :
     /\ authenticated(u)
     /\ Serve(deleteAccount(DB, deleteAccountReq(u)))

\* req.user belongs to the family
isMemberOfFamily(u) == users[u].exists /\ users[u].familyId = Family

CreateExpenseBy(us, amounts, cats, dates) ==
  \E u \in us, a \in amounts, c \in cats, d \in dates :
     /\ Len(expenses) < MaxExpenses
     /\ isMemberOfFamily(u)
     /\ Handle([createExpenseReq(a, c, d) EXCEPT !.user = u], NoFailure)

(***************************************************************************)
(* Accounts deleted among the expenses and budgets of the family.          *)
(***************************************************************************)
\* a second user is invited and joins, both users record expenses of
\* January 2025, the admin creates the budget, and accounts are deleted
NextAccount ==
  \/ InviteMember({"u2"}, {"member"}, {December})
  \/ JoinFamily({December})
  \/ CreateExpenseBy({"u1", "u2"}, {60}, JustCategoryA, {January})
  \/ /\ isMemberOfFamily(FirstUser)
     /\ CreateBudget(JustCategoryA, {100}, {[year |-> 2025, month |-> 1]},
                     {UndefNum}, NoFailure)
  \/ DeleteAccount

SpecAccount == Init /\ [][NextAccount]_vars

\* C27: after deleteAccount removed a member of a family that keeps other
\* members, every remaining active Budget of the family has spent equal to
\* the sum of the active expenses still present in its bucket
C27_BudgetsFollowDeletedAccount ==
  (/\ reqs[1].op = "deleteAccount" /\ reqs[1].status = 200
   /\ families[Family].exists)
     => reconciled(expenses, budgets)

(***************************************************************************)
(* The admins of a family.                                                 *)
(***************************************************************************)
NextFamily ==
  \/ InviteMember({"u2", "u3"}, {"member", "admin"}, {December})
  \/ JoinFamily({December})
  \/ UpdateMemberRole({"member", "admin"})
  \/ RemoveMember
  \/ LeaveFamily
  \/ DeleteAccount

SpecFamily == Init /\ [][NextFamily]_vars

\* the active members of the member list of family f
activeMembers(f) ==
  {k \in DOMAIN families[f].members : families[f].members[k].isActive}

\* C28: after any sequence of joinFamily, updateMemberRole, removeMember,
\* leaveFamily and deleteAccount requests, every family that still has an
\* active member has an active member who is admin both in the member list
\* and in the role field of the User
C28_FamilyKeepsAnAdmin ==
  \A f \in DOMAIN families :
     (families[f].exists /\ activeMembers(f) # {}) =>
       \E k \in activeMembers(f) :
          LET m == families[f].members[k]
          IN /\ m.role = "admin"
             /\ users[m.user].exists
             /\ users[m.user].role = "admin"

(***************************************************************************)
(* Invitations: made in December 2024 and January 2025, accepted or        *)
(* cancelled at the first instant of either month.                         *)
(***************************************************************************)
NextInvite ==
  \/ InviteMember({"u2", "u3"}, {"member"}, {December, January})
  \/ JoinFamily({December, January})
  \/ CancelInvitation

SpecInvite == Init /\ [][NextInvite]_vars

\* C29: a joinFamily that adds the user to a family accepts an invitation
\* that was pending, not yet expired at the time of the request, and
\* addressed to the user's email: an invitation that has expired, or was
\* accepted or cancelled, is never accepted
C29_OnlyValidInvitationIsAccepted ==
  [][(reqs'[1].op = "joinFamily" /\ reqs'[1].status = 200) =>
       \E f \in DOMAIN families :
          \E t \in DOMAIN families[f].invitations :
             /\ families[f].invitations[t].status = "pending"
             /\ families'[f].invitations[t].status = "accepted"
             /\ getTime(families[f].invitations[t].expiresAt)
                  > getTime(reqs'[1].now)
             /\ families[f].invitations[t].email = reqs'[1].user]_vars


(***************************************************************************)
(* Recurring incomes (Income model, incomeController).                     *)
(***************************************************************************)
\* Income.getRecurringIncomesDue: the _id of the recurring active incomes
\* whose nextOccurrence is not after today, in the order of the collection.
\* today is the start of the day of the request; no income has an endDate
getRecurringIncomesDue(incs, today) ==
  SelectSeq([i \in DOMAIN incs |-> i],
            LAMBDA i : /\ incs[i].isRecurring
                       /\ incs[i].isActive
                       /\ incs[i].nextOccurrence # NoDate
                       /\ getTime(incs[i].nextOccurrence) <= getTime(today))

\* income.createNextRecurrence: a copy of the income dated at its next
\* occurrence; the income's nextOccurrence is assigned the one of the copy
\* and the income saved, then the copy is saved.  Both saves run pre('save')
createNextRecurrence(incs, i) ==
  LET this == incs[i]
      nextDate == calculateNextOccurrence(this)
      nextIncome == [this EXCEPT !.date = nextDate, !.isActive = TRUE]
      assigned == [this EXCEPT
                     !.nextOccurrence = calculateNextOccurrence(nextIncome)]
  IN IF ~this.isRecurring \/ nextDate = NoDate THEN incs
     ELSE Append([incs EXCEPT ![i] = preSaveIncome(assigned, TRUE)],
                 preSaveIncome(nextIncome, TRUE))

\* for (const income of recurringIncomes) income.createNextRecurrence()
RECURSIVE processDue(_, _)
processDue(incs, due) ==
  IF due = <<>> THEN incs
  ELSE processDue(createNextRecurrence(incs, Head(due)), Tail(due))

\* processRecurringIncomes: admins only; every income that is due gets its
\* next recurrence created
processRecurringIncomes(db, r) ==
  IF db.users[r.user].role # "admin"
  THEN Out(db, respond(r, 403))
  ELSE LET due == getRecurringIncomesDue(db.incomes, r.now)
       IN Out([db EXCEPT !.incomes = processDue(@, due)],
              respond([r EXCEPT !.created = Len(due),
                                !.wrote = due # <<>>], 200))

processRecurringIncomesReq(user, now) ==
  [Request("processRecurringIncomes") EXCEPT !.user = user, !.now = now]

\* createIncome with isRecurring and a monthly recurringPattern in its body
CreateRecurringIncome(amounts, dates) ==
  \E a \in amounts, d \in dates :
     /\ Len(incomes) < MaxIncomes
     /\ Serve(createIncome(DB, [createIncomeReq(a, d) EXCEPT
                                  !.isRecurring = TRUE], FALSE))

\* the request is made at the first instant of a day, by any user, and the
\* clock of the server does not run backwards
ProcessRecurringIncomes(nows) ==
  \E u \in UserIds, now \in nows :
     /\ Len(incomes) < MaxRecurrences
     /\ authenticated(u)
     /\ getTime(reqs[1].now) <= getTime(now)
     /\ Serve(processRecurringIncomes(DB, processRecurringIncomesReq(u, now)))

February == Date(2025, 2, 0)
March == Date(2025, 3, 0)

\* one recurring income is created, dated December 2024 or January 2025, and
\* processing is requested at the start of January, February and March 2025
NextRecurring ==
  \/ CreateRecurringIncome({100, 200}, {December, January})
  \/ ProcessRecurringIncomes({January, February, March})
  \/ DeleteIncome({0})

SpecRecurring == Init /\ [][NextRecurring]_vars

\* the incomes of one series: created from one another by
\* createNextRecurrence, which copies the user, the family and the amount
sameSeries(a, b) ==
  /\ a.isRecurring /\ b.isRecurring
  /\ a.isActive /\ b.isActive
  /\ a.userId = b.userId /\ a.familyId = b.familyId /\ a.amount = b.amount

\* C30: after any sequence of processRecurringIncomes calls a recurring
\* income series holds at most one income per occurrence date: no two
\* incomes of one series have the same date
C30_OneIncomePerOccurrence ==
  \A i, j \in DOMAIN incomes :
     (i < j /\ sameSeries(incomes[i], incomes[j]))
       => incomes[i].date # incomes[j].date

=============================================================================
